---- MODULE Spec2Model ----
(***************************************************************************)
(* Schema diffing and SQL generation of drizzle-tx-migrations.             *)
(*                                                                         *)
(* SchemaDiffer (schema-differ.ts) and SqlGenerator (sql-generator.ts) are *)
(* pure: the differ maps (current, desired) to a list of SchemaChange, the *)
(* generator maps a list of SchemaChange and a dialect to up/down SQL.     *)
(* Their inputs are drawn in Init; the actions apply them.                 *)
(*                                                                         *)
(* Text: identifiers and rendered SQL are TLA+ strings, joined with \o.    *)
(* Column types and default values, which the code inspects character by   *)
(* character (toLowerCase, regex replace, trim), are sequences of          *)
(* one-character strings; Str turns them into text where the code          *)
(* interpolates them.  An optional field is <<>> when undefined and <<v>>  *)
(* when it holds v.  A Map keyed by name is the sequence of its values in  *)
(* insertion order (names are unique).                                     *)
(*                                                                         *)
(* Migrator (migrator.ts) runs the migration files against the database    *)
(* and records them in the tracking table (MigrationTable); each await of  *)
(* a call is one step.  MigrationValidator.check and the check command of  *)
(* the CLI sit on top of Migrator.getStatus.  SchemaIntrospector reads the *)
(* tables of the database for the differ.                                  *)
(***************************************************************************)
EXTENDS Integers, Sequences, FiniteSets, TLC

VARIABLES
    currentSchema,   \* SchemaDiffer.currentSchema: sequence of TableSchema
    desiredSchema,   \* SchemaDiffer.desiredSchema
    changes,         \* the SchemaChange[] the caller holds
    input,           \* history: the list as it was handed to generate
    dialect,         \* SqlGenerator.dialect
    upStatements,    \* GeneratedSql.upStatements
    downStatements,  \* GeneratedSql.downStatements
    pc,              \* "diff": before differ.diff(); "generate": before
                     \* sqlGenerator.generate(changes); "done": after it
    migrationsTable, \* MigratorOptions.config.migrationsTable
    database,        \* the tables of the live database, as its catalog lists them
    files,           \* names of the migration files in config.migrationsFolder
    tracking,        \* committed rows of the tracking table, in insertion (id) order
    working,         \* the rows as the open transaction sees them
    txOpen,          \* a transaction is open on the connection
    call,            \* the Migrator call in progress (or the last one)
    queue,           \* the migrations the call's loop has still to process
    done,            \* the call's local list executed / reverted
    mpc,             \* the await the call is suspended at; "idle" between calls
    events,          \* history: statements and bodies the call has issued
    before,          \* history: tracking table and folder when the call began
    result           \* what the last call returned or threw

migratorVars == <<migrationsTable, database, files, tracking, working, txOpen, call,
                  queue, done, mpc, events, before, result>>

vars == <<currentSchema, desiredSchema, changes, input, dialect, upStatements,
          downStatements, pc, migrationsTable, database, files, tracking, working,
          txOpen, call, queue, done, mpc, events, before, result>>

(***************************************************************************)
(* Bounds of the inputs                                                    *)
(***************************************************************************)
MaxTables == 2
MaxCols == 2
MaxIdx == 2
MaxFks == 2
MaxChanges == 3

(***************************************************************************)
(* Sequence and text helpers                                               *)
(***************************************************************************)
RECURSIVE Flatten(_)
Flatten(ss) == IF ss = <<>> THEN <<>> ELSE Head(ss) \o Flatten(Tail(ss))

RECURSIVE Str(_)
Str(cs) == IF cs = <<>> THEN "" ELSE Head(cs) \o Str(Tail(cs))

RECURSIVE Join(_, _)
Join(ss, sep) ==
    IF ss = <<>> THEN ""
    ELSE IF Len(ss) = 1 THEN ss[1]
    ELSE ss[1] \o sep \o Join(Tail(ss), sep)

Reverse(s) == [i \in 1..Len(s) |-> s[Len(s) + 1 - i]]

Range(s) == {s[i] : i \in DOMAIN s}

\* all sequences over S of length at most n whose elements have distinct names
RECURSIVE NamedSeqs(_, _)
NamedSeqs(S, n) ==
    IF n = 0 THEN {<<>>}
    ELSE LET shorter == NamedSeqs(S, n - 1)
         IN  shorter \cup
             {Append(p[1], p[2]) : p \in
                 {q \in shorter \X S :
                     Len(q[1]) = n - 1 /\ \A i \in DOMAIN q[1] : q[1][i].name # q[2].name}}

UpperChars == <<"A","B","C","D","E","F","G","H","I","J","K","L","M",
                "N","O","P","Q","R","S","T","U","V","W","X","Y","Z">>
LowerChars == <<"a","b","c","d","e","f","g","h","i","j","k","l","m",
                "n","o","p","q","r","s","t","u","v","w","x","y","z">>

\* String.prototype.toLowerCase / toUpperCase, character by character
toLowerCase(cs) ==
    [i \in 1..Len(cs) |->
        IF \E k \in 1..26 : UpperChars[k] = cs[i]
        THEN LowerChars[CHOOSE k \in 1..26 : UpperChars[k] = cs[i]]
        ELSE cs[i]]

toUpperCase(cs) ==
    [i \in 1..Len(cs) |->
        IF \E k \in 1..26 : LowerChars[k] = cs[i]
        THEN UpperChars[CHOOSE k \in 1..26 : LowerChars[k] = cs[i]]
        ELSE cs[i]]

IsSpace(c) == c \in {" ", "\t", "\n"}
IsQuote(c) == c \in {"'", "\""}

\* String.prototype.trim
RECURSIVE trimStart(_)
trimStart(cs) == IF cs # <<>> /\ IsSpace(Head(cs)) THEN trimStart(Tail(cs)) ELSE cs

trim(cs) == Reverse(trimStart(Reverse(trimStart(cs))))

(***************************************************************************)
(* Map helpers: a Map keyed by name is the sequence of its values          *)
(***************************************************************************)
Has(m, name) == \E i \in DOMAIN m : m[i].name = name
Get(m, name) == m[CHOOSE i \in DOMAIN m : m[i].name = name]

(***************************************************************************)
(* SchemaDiffer                                                            *)
(***************************************************************************)
\* normalizeType: type.toLowerCase().replace(/\s+/g, '')
normalizeType(type) == SelectSeq(toLowerCase(type), LAMBDA c : ~IsSpace(c))

\* val.replace(/^['"]|['"]$/g, ''): one quote off the start, then one quote
\* off the end of what is left of the string
stripQuotes(cs) ==
    LET a == IF cs # <<>> /\ IsQuote(Head(cs)) THEN Tail(cs) ELSE cs
    IN  IF a # <<>> /\ IsQuote(a[Len(a)]) THEN SubSeq(a, 1, Len(a) - 1) ELSE a

\* normalize of defaultsAreDifferent: null for undefined, else the string
\* with its quotes removed and then trimmed
normalizeDefault(val) == IF val = <<>> THEN <<>> ELSE <<trim(stripQuotes(val[1]))>>

\* mutant: only the desired side is normalized
defaultsAreDifferent_rawCurrent(current, desired) == current # normalizeDefault(desired)

defaultsAreDifferent(current, desired) == normalizeDefault(current) # normalizeDefault(desired)

\* mutant: autoIncrement is compared too
columnsAreDifferent_autoIncrement(current, desired) ==
    \/ normalizeType(current.type) # normalizeType(desired.type)
    \/ current.notNull # desired.notNull
    \/ current.primaryKey # desired.primaryKey
    \/ current.autoIncrement # desired.autoIncrement
    \/ defaultsAreDifferent(current.defaultValue, desired.defaultValue)

columnsAreDifferent(current, desired) ==
    \/ normalizeType(current.type) # normalizeType(desired.type)
    \/ current.notNull # desired.notNull
    \/ current.primaryKey # desired.primaryKey
    \/ defaultsAreDifferent(current.defaultValue, desired.defaultValue)

\* the drop loop, then the add-or-modify loop
diffTables_noModify(currentTable, desiredTable) ==
    LET cur == currentTable.columns
        des == desiredTable.columns
        drops == [i \in 1..Len(cur) |->
                    IF ~Has(des, cur[i].name)
                    THEN <<[type |-> "drop_column", column |-> cur[i].name,
                            details |-> [column |-> cur[i]]]>>
                    ELSE <<>>]
        adds == [i \in 1..Len(des) |->
                    IF ~Has(cur, des[i].name)
                    THEN <<[type |-> "add_column", column |-> des[i].name,
                            details |-> [column |-> des[i]]]>>
                    ELSE <<>>]
    IN  Flatten(drops) \o Flatten(adds)

diffTables(currentTable, desiredTable) ==
    LET cur == currentTable.columns
        des == desiredTable.columns
        drops == [i \in 1..Len(cur) |->
                    IF ~Has(des, cur[i].name)
                    THEN <<[type |-> "drop_column", column |-> cur[i].name,
                            details |-> [column |-> cur[i]]]>>
                    ELSE <<>>]
        adds == [i \in 1..Len(des) |->
                    IF ~Has(cur, des[i].name)
                    THEN <<[type |-> "add_column", column |-> des[i].name,
                            details |-> [column |-> des[i]]]>>
                    ELSE IF columnsAreDifferent(Get(cur, des[i].name), des[i])
                    THEN <<[type |-> "modify_column", column |-> des[i].name,
                            details |-> [currentColumn |-> Get(cur, des[i].name),
                                         desiredColumn |-> des[i]]]>>
                    ELSE <<>>]
    IN  Flatten(drops) \o Flatten(adds)

\* mutant: the unique flag is not compared
indexesAreDifferent_ignoresUnique(current, desired) ==
    \/ Len(current.columns) # Len(desired.columns)
    \/ ~(\A i \in DOMAIN current.columns : current.columns[i] = desired.columns[i])

indexesAreDifferent(current, desired) ==
    \/ current.unique # desired.unique
    \/ Len(current.columns) # Len(desired.columns)
    \/ ~(\A i \in DOMAIN current.columns : current.columns[i] = desired.columns[i])

diffIndexes(currentTable, desiredTable, tableName) ==
    LET cur == currentTable.indexes
        des == desiredTable.indexes
        drops == [i \in 1..Len(cur) |->
                    IF ~Has(des, cur[i].name)
                    THEN <<[type |-> "drop_index", table |-> tableName,
                            details |-> [index |-> cur[i]]]>>
                    ELSE <<>>]
        creates == [i \in 1..Len(des) |->
                    IF ~Has(cur, des[i].name)
                    THEN <<[type |-> "create_index", table |-> tableName,
                            details |-> [index |-> des[i]]]>>
                    ELSE IF indexesAreDifferent(Get(cur, des[i].name), des[i])
                    THEN <<[type |-> "drop_index", table |-> tableName,
                            details |-> [index |-> Get(cur, des[i].name)]],
                           [type |-> "create_index", table |-> tableName,
                            details |-> [index |-> des[i]]]>>
                    ELSE <<>>]
    IN  Flatten(drops) \o Flatten(creates)

foreignKeysAreDifferent(current, desired) ==
    \/ current.column # desired.column
    \/ current.referencedTable # desired.referencedTable
    \/ current.referencedColumn # desired.referencedColumn
    \/ current.onDelete # desired.onDelete
    \/ current.onUpdate # desired.onUpdate

diffForeignKeys(currentTable, desiredTable, tableName) ==
    LET cur == currentTable.foreignKeys
        des == desiredTable.foreignKeys
        drops == [i \in 1..Len(cur) |->
                    IF ~Has(des, cur[i].name)
                    THEN <<[type |-> "drop_foreign_key", table |-> tableName,
                            details |-> [foreignKey |-> cur[i]]]>>
                    ELSE <<>>]
        creates == [i \in 1..Len(des) |->
                    IF ~Has(cur, des[i].name)
                    THEN <<[type |-> "add_foreign_key", table |-> tableName,
                            details |-> [foreignKey |-> des[i]]]>>
                    ELSE IF foreignKeysAreDifferent(Get(cur, des[i].name), des[i])
                    THEN <<[type |-> "drop_foreign_key", table |-> tableName,
                            details |-> [foreignKey |-> Get(cur, des[i].name)]],
                           [type |-> "add_foreign_key", table |-> tableName,
                            details |-> [foreignKey |-> des[i]]]>>
                    ELSE <<>>]
    IN  Flatten(drops) \o Flatten(creates)

\* what the second loop of diff() pushes for a table to create: create_table,
\* then a create_index per index, then an add_foreign_key per foreign key
\* mutant: the indexes of a new table are forgotten
createdTableChanges_noIndexes(tableName, tableSchema) ==
    <<[type |-> "create_table", table |-> tableName,
       details |-> [tableSchema |-> tableSchema]]>>
    \o [k \in 1..Len(tableSchema.foreignKeys) |->
           [type |-> "add_foreign_key", table |-> tableName,
            details |-> [foreignKey |-> tableSchema.foreignKeys[k]]]]

createdTableChanges(tableName, tableSchema) ==
    <<[type |-> "create_table", table |-> tableName,
       details |-> [tableSchema |-> tableSchema]]>>
    \o [k \in 1..Len(tableSchema.indexes) |->
           [type |-> "create_index", table |-> tableName,
            details |-> [index |-> tableSchema.indexes[k]]]]
    \o [k \in 1..Len(tableSchema.foreignKeys) |->
           [type |-> "add_foreign_key", table |-> tableName,
            details |-> [foreignKey |-> tableSchema.foreignKeys[k]]]]

\* the three loops of diff(): tables to drop, tables to create (with their
\* indexes and foreign keys), tables to alter
diff(current, desired) ==
    LET dropped == [i \in 1..Len(current) |->
                    IF ~Has(desired, current[i].name)
                    THEN <<[type |-> "drop_table", table |-> current[i].name,
                            details |-> [tableSchema |-> current[i]]]>>
                    ELSE <<>>]
        created == [i \in 1..Len(desired) |->
                    IF ~Has(current, desired[i].name)
                    THEN createdTableChanges(desired[i].name, desired[i])
                    ELSE <<>>]
        altered == [i \in 1..Len(desired) |->
                    IF Has(current, desired[i].name)
                    THEN LET tableName == desired[i].name
                             currentTable == Get(current, tableName)
                             tableChanges == diffTables(currentTable, desired[i])
                         IN  (IF Len(tableChanges) > 0
                              THEN <<[type |-> "alter_table", table |-> tableName,
                                      details |-> [changes |-> tableChanges,
                                                   currentTable |-> currentTable,
                                                   desiredTable |-> desired[i]]]>>
                              ELSE <<>>)
                             \o diffIndexes(currentTable, desired[i], tableName)
                             \o diffForeignKeys(currentTable, desired[i], tableName)
                    ELSE <<>>]
    IN  Flatten(dropped) \o Flatten(created) \o Flatten(altered)

(***************************************************************************)
(* SqlGenerator                                                            *)
(***************************************************************************)
Dialects == {"postgresql", "mysql", "sqlite"}

\* stands for the grave accent (U+0060) of MySQL identifiers, which a TLA+
\* string cannot hold
Backtick == "~"

quote(identifier, d) ==
    IF d = "postgresql" THEN "\"" \o identifier \o "\""
    ELSE IF d = "mysql" THEN Backtick \o identifier \o Backtick
    ELSE "\"" \o identifier \o "\""

pgTypes ==
    << <<"integer", "INTEGER">>, <<"bigint", "BIGINT">>, <<"smallint", "SMALLINT">>,
       <<"varchar", "VARCHAR(255)">>, <<"text", "TEXT">>, <<"boolean", "BOOLEAN">>,
       <<"timestamp", "TIMESTAMP">>, <<"timestamptz", "TIMESTAMPTZ">>, <<"date", "DATE">>,
       <<"time", "TIME">>, <<"json", "JSON">>, <<"jsonb", "JSONB">>, <<"uuid", "UUID">>,
       <<"real", "REAL">>, <<"double", "DOUBLE PRECISION">>, <<"decimal", "DECIMAL">> >>

mysqlTypes ==
    << <<"integer", "INT">>, <<"bigint", "BIGINT">>, <<"smallint", "SMALLINT">>,
       <<"varchar", "VARCHAR(255)">>, <<"text", "TEXT">>, <<"boolean", "BOOLEAN">>,
       <<"timestamp", "TIMESTAMP">>, <<"datetime", "DATETIME">>, <<"date", "DATE">>,
       <<"json", "JSON">>, <<"real", "FLOAT">>, <<"double", "DOUBLE">>,
       <<"decimal", "DECIMAL">> >>

sqliteTypes ==
    << <<"integer", "INTEGER">>, <<"bigint", "INTEGER">>, <<"smallint", "INTEGER">>,
       <<"varchar", "TEXT">>, <<"text", "TEXT">>, <<"boolean", "INTEGER">>,
       <<"timestamp", "TEXT">>, <<"date", "TEXT">>, <<"json", "TEXT">>,
       <<"real", "REAL">>, <<"double", "REAL">>, <<"decimal", "REAL">>,
       <<"blob", "BLOB">> >>

\* types[key] || fallback
Lookup(types, key, fallback) ==
    IF \E i \in DOMAIN types : types[i][1] = key
    THEN types[CHOOSE i \in DOMAIN types : types[i][1] = key][2]
    ELSE fallback

getColumnType(column, d) ==
    LET type == toLowerCase(column.type)
    IN  IF d = "postgresql" THEN Lookup(pgTypes, Str(type), Str(toUpperCase(type)))
        ELSE IF d = "mysql" THEN Lookup(mysqlTypes, Str(type), Str(toUpperCase(type)))
        ELSE Lookup(sqliteTypes, Str(type), "TEXT")

\* truthiness of an optional string: defined and not empty (the first for a
\* string held as characters, the second for a string held as text)
TruthyChars(opt) == opt # <<>> /\ opt[1] # <<>>
Truthy(opt) == opt # <<>> /\ opt[1] # ""

generateColumnDefinition(column, d) ==
    LET name == quote(column.name, d)
        type == getColumnType(column, d)
        notNull == IF column.notNull THEN " NOT NULL" ELSE ""
        primaryKey == IF column.primaryKey /\ ~column.autoIncrement
                      THEN " PRIMARY KEY" ELSE ""
        defaultValue == IF TruthyChars(column.defaultValue)
                        THEN " DEFAULT " \o Str(column.defaultValue[1]) ELSE ""
    IN  IF column.autoIncrement /\ d = "postgresql" THEN name \o " SERIAL PRIMARY KEY"
        ELSE IF column.autoIncrement /\ d # "mysql"
        THEN name \o " INTEGER PRIMARY KEY AUTOINCREMENT"
        ELSE name \o " " \o type \o notNull \o primaryKey
             \o (IF column.autoIncrement THEN " AUTO_INCREMENT PRIMARY KEY" ELSE "")
             \o defaultValue

generateCreateTable(change, d) ==
    LET tableSchema == change.details.tableSchema
        tableName == quote(change.table, d)
        cols == [i \in 1..Len(tableSchema.columns) |->
                    generateColumnDefinition(tableSchema.columns[i], d)]
        columnDefs ==
            IF Len(tableSchema.primaryKey) > 1
            THEN Append(cols, "PRIMARY KEY ("
                    \o Join([i \in 1..Len(tableSchema.primaryKey) |->
                                quote(tableSchema.primaryKey[i], d)], ", ") \o ")")
            ELSE cols
        createSQL == "CREATE TABLE " \o tableName \o " (\n  "
                     \o Join(columnDefs, ",\n  ") \o "\n);"
        dropSQL == "DROP TABLE IF EXISTS " \o tableName \o ";"
    IN  [up |-> <<createSQL>>, down |-> <<dropSQL>>]

\* mutant: the dropped table is not recreated on the way down
generateDropTable_noDown(change, d) ==
    [up |-> <<"DROP TABLE IF EXISTS " \o quote(change.table, d) \o ";">>, down |-> <<>>]

generateDropTable(change, d) ==
    LET tableSchema == change.details.tableSchema
        tableName == quote(change.table, d)
        dropSQL == "DROP TABLE IF EXISTS " \o tableName \o ";"
        cols == [i \in 1..Len(tableSchema.columns) |->
                    generateColumnDefinition(tableSchema.columns[i], d)]
        columnDefs ==
            IF Len(tableSchema.primaryKey) > 1
            THEN Append(cols, "PRIMARY KEY ("
                    \o Join([i \in 1..Len(tableSchema.primaryKey) |->
                                quote(tableSchema.primaryKey[i], d)], ", ") \o ")")
            ELSE cols
        createSQL == "CREATE TABLE " \o tableName \o " (\n  "
                     \o Join(columnDefs, ",\n  ") \o "\n);"
    IN  [up |-> <<dropSQL>>, down |-> <<createSQL>>]

SqliteNoDropColumn == "-- SQLite doesn't support DROP COLUMN natively, manual migration required"
SqliteNoModifyColumn == "-- SQLite doesn't support MODIFY COLUMN natively, manual migration required"
SqliteNoAddConstraint == "-- SQLite doesn't support ADD CONSTRAINT, define foreign keys in CREATE TABLE"
SqliteNoDropConstraint == "-- SQLite doesn't support DROP CONSTRAINT"

generateModifyColumn_sqliteModifies(tableName, column, d) ==
    LET table == quote(tableName, d)
        colName == quote(column.name, d)
        colDef == generateColumnDefinition(column, d)
    IN  IF d = "postgresql"
        THEN "ALTER TABLE " \o table \o " ALTER COLUMN " \o colName \o " TYPE "
             \o getColumnType(column, d) \o ";"
        ELSE "ALTER TABLE " \o table \o " MODIFY COLUMN " \o colDef \o ";"

generateModifyColumn(tableName, column, d) ==
    LET table == quote(tableName, d)
        colName == quote(column.name, d)
        colDef == generateColumnDefinition(column, d)
    IN  IF d = "postgresql"
        THEN "ALTER TABLE " \o table \o " ALTER COLUMN " \o colName \o " TYPE "
             \o getColumnType(column, d) \o ";"
        ELSE IF d = "mysql" THEN "ALTER TABLE " \o table \o " MODIFY COLUMN " \o colDef \o ";"
        ELSE SqliteNoModifyColumn

generateTableChange(tableName, change, d) ==
    LET table == quote(tableName, d)
    IN  CASE change.type = "add_column" ->
               LET colDef == generateColumnDefinition(change.details.column, d)
                   addSQL == "ALTER TABLE " \o table \o " ADD COLUMN " \o colDef \o ";"
                   dropSQL == IF d = "sqlite" THEN SqliteNoDropColumn
                              ELSE "ALTER TABLE " \o table \o " DROP COLUMN "
                                   \o quote(change.column, d) \o ";"
               IN  [up |-> <<addSQL>>, down |-> <<dropSQL>>]
          [] change.type = "drop_column" ->
               LET colDef == generateColumnDefinition(change.details.column, d)
                   dropSQL == IF d = "sqlite" THEN SqliteNoDropColumn
                              ELSE "ALTER TABLE " \o table \o " DROP COLUMN "
                                   \o quote(change.column, d) \o ";"
                   addSQL == "ALTER TABLE " \o table \o " ADD COLUMN " \o colDef \o ";"
               IN  [up |-> <<dropSQL>>, down |-> <<addSQL>>]
          [] change.type = "modify_column" ->
               [up |-> <<generateModifyColumn(tableName, change.details.desiredColumn, d)>>,
                down |-> <<generateModifyColumn(tableName, change.details.currentColumn, d)>>]
          [] OTHER -> [up |-> <<>>, down |-> <<>>]

\* the loop of generateAlterTable: both lists are appended to
RECURSIVE alterTableLoop(_, _, _, _, _)
alterTableLoop(tableName, tableChanges, d, up, down) ==
    IF tableChanges = <<>> THEN [up |-> up, down |-> down]
    ELSE LET r == generateTableChange(tableName, Head(tableChanges), d)
         IN  alterTableLoop(tableName, Tail(tableChanges), d, up \o r.up, down \o r.down)

generateAlterTable(change, d) ==
    alterTableLoop(change.table, change.details.changes, d, <<>>, <<>>)

generateCreateIndex(change, d) ==
    LET index == change.details.index
        tableName == quote(change.table, d)
        indexName == quote(index.name, d)
        columns == Join([i \in 1..Len(index.columns) |-> quote(index.columns[i], d)], ", ")
        unique == IF index.unique THEN "UNIQUE " ELSE ""
        createSQL == "CREATE " \o unique \o "INDEX " \o indexName \o " ON " \o tableName
                     \o " (" \o columns \o ");"
        dropSQL == "DROP INDEX "
                   \o (IF d = "mysql" THEN indexName \o " ON " \o tableName ELSE indexName)
                   \o ";"
    IN  [up |-> <<createSQL>>, down |-> <<dropSQL>>]

\* mutant: DROP INDEX is never scoped to the table
generateDropIndex_unscoped(change, d) ==
    LET index == change.details.index
        tableName == quote(change.table, d)
        indexName == quote(index.name, d)
        columns == Join([i \in 1..Len(index.columns) |-> quote(index.columns[i], d)], ", ")
        unique == IF index.unique THEN "UNIQUE " ELSE ""
        dropSQL == "DROP INDEX " \o indexName \o ";"
        createSQL == "CREATE " \o unique \o "INDEX " \o indexName \o " ON " \o tableName
                     \o " (" \o columns \o ");"
    IN  [up |-> <<dropSQL>>, down |-> <<createSQL>>]

generateDropIndex(change, d) ==
    LET index == change.details.index
        tableName == quote(change.table, d)
        indexName == quote(index.name, d)
        columns == Join([i \in 1..Len(index.columns) |-> quote(index.columns[i], d)], ", ")
        unique == IF index.unique THEN "UNIQUE " ELSE ""
        dropSQL == "DROP INDEX "
                   \o (IF d = "mysql" THEN indexName \o " ON " \o tableName ELSE indexName)
                   \o ";"
        createSQL == "CREATE " \o unique \o "INDEX " \o indexName \o " ON " \o tableName
                     \o " (" \o columns \o ");"
    IN  [up |-> <<dropSQL>>, down |-> <<createSQL>>]

\* mutant: SQLite, which cannot add a constraint, gets no up statement
generateAddForeignKey_sqliteOmits(change, d) ==
    LET foreignKey == change.details.foreignKey
        tableName == quote(change.table, d)
        fkName == quote(foreignKey.name, d)
        column == quote(foreignKey.column, d)
        refTable == quote(foreignKey.referencedTable, d)
        refColumn == quote(foreignKey.referencedColumn, d)
        onDelete == IF Truthy(foreignKey.onDelete)
                    THEN " ON DELETE " \o foreignKey.onDelete[1] ELSE ""
        onUpdate == IF Truthy(foreignKey.onUpdate)
                    THEN " ON UPDATE " \o foreignKey.onUpdate[1] ELSE ""
        addSQL == "ALTER TABLE " \o tableName \o " ADD CONSTRAINT " \o fkName
                  \o " FOREIGN KEY (" \o column \o ") REFERENCES " \o refTable
                  \o "(" \o refColumn \o ")" \o onDelete \o onUpdate \o ";"
        dropSQL == IF d = "sqlite" THEN SqliteNoDropConstraint
                   ELSE "ALTER TABLE " \o tableName \o " DROP CONSTRAINT " \o fkName \o ";"
    IN  [up |-> IF d = "sqlite" THEN <<>> ELSE <<addSQL>>, down |-> <<dropSQL>>]

generateAddForeignKey(change, d) ==
    LET foreignKey == change.details.foreignKey
        tableName == quote(change.table, d)
        fkName == quote(foreignKey.name, d)
        column == quote(foreignKey.column, d)
        refTable == quote(foreignKey.referencedTable, d)
        refColumn == quote(foreignKey.referencedColumn, d)
        onDelete == IF Truthy(foreignKey.onDelete)
                    THEN " ON DELETE " \o foreignKey.onDelete[1] ELSE ""
        onUpdate == IF Truthy(foreignKey.onUpdate)
                    THEN " ON UPDATE " \o foreignKey.onUpdate[1] ELSE ""
        addSQL == IF d = "sqlite" THEN SqliteNoAddConstraint
                  ELSE "ALTER TABLE " \o tableName \o " ADD CONSTRAINT " \o fkName
                       \o " FOREIGN KEY (" \o column \o ") REFERENCES " \o refTable
                       \o "(" \o refColumn \o ")" \o onDelete \o onUpdate \o ";"
        dropSQL == IF d = "sqlite" THEN SqliteNoDropConstraint
                   ELSE "ALTER TABLE " \o tableName \o " DROP CONSTRAINT " \o fkName \o ";"
    IN  [up |-> <<addSQL>>, down |-> <<dropSQL>>]

generateDropForeignKey(change, d) ==
    LET foreignKey == change.details.foreignKey
        tableName == quote(change.table, d)
        fkName == quote(foreignKey.name, d)
        column == quote(foreignKey.column, d)
        refTable == quote(foreignKey.referencedTable, d)
        refColumn == quote(foreignKey.referencedColumn, d)
        onDelete == IF Truthy(foreignKey.onDelete)
                    THEN " ON DELETE " \o foreignKey.onDelete[1] ELSE ""
        onUpdate == IF Truthy(foreignKey.onUpdate)
                    THEN " ON UPDATE " \o foreignKey.onUpdate[1] ELSE ""
        dropSQL == IF d = "sqlite" THEN SqliteNoDropConstraint
                   ELSE "ALTER TABLE " \o tableName \o " DROP CONSTRAINT " \o fkName \o ";"
        addSQL == IF d = "sqlite" THEN SqliteNoAddConstraint
                  ELSE "ALTER TABLE " \o tableName \o " ADD CONSTRAINT " \o fkName
                       \o " FOREIGN KEY (" \o column \o ") REFERENCES " \o refTable
                       \o "(" \o refColumn \o ")" \o onDelete \o onUpdate \o ";"
    IN  [up |-> <<dropSQL>>, down |-> <<addSQL>>]

generateChangeSQL(change, d) ==
    CASE change.type = "create_table" -> generateCreateTable(change, d)
      [] change.type = "drop_table" -> generateDropTable(change, d)
      [] change.type = "alter_table" -> generateAlterTable(change, d)
      [] change.type = "create_index" -> generateCreateIndex(change, d)
      [] change.type = "drop_index" -> generateDropIndex(change, d)
      [] change.type = "add_foreign_key" -> generateAddForeignKey(change, d)
      [] change.type = "drop_foreign_key" -> generateDropForeignKey(change, d)
      [] OTHER -> [up |-> <<>>, down |-> <<>>]

\* mutant: tables are created before tables are dropped
order_createBeforeDrop ==
    <<"drop_foreign_key", "drop_index", "alter_table", "create_table",
      "drop_table", "create_index", "add_foreign_key">>

\* the order array of orderChanges
order == <<"drop_foreign_key", "drop_index", "alter_table", "drop_table",
           "create_table", "create_index", "add_foreign_key">>

\* order.indexOf(type)
indexOf(type) ==
    IF \E i \in DOMAIN order : order[i] = type
    THEN (CHOOSE i \in DOMAIN order : order[i] = type) - 1
    ELSE -1

\* the comparator handed to Array.prototype.sort
compareChanges(a, b) == indexOf(a.type) - indexOf(b.type)

\* Array.prototype.sort is stable: an element goes before the first element
\* that compares greater than it
RECURSIVE insertChange(_, _)
insertChange(sorted, x) ==
    IF sorted = <<>> THEN <<x>>
    ELSE IF compareChanges(Head(sorted), x) > 0 THEN <<x>> \o sorted
    ELSE <<Head(sorted)>> \o insertChange(Tail(sorted), x)

RECURSIVE orderChanges(_)
orderChanges(cs) ==
    IF cs = <<>> THEN <<>>
    ELSE insertChange(orderChanges(SubSeq(cs, 1, Len(cs) - 1)), cs[Len(cs)])

\* the loop of generate: up statements are pushed, down statements unshifted
RECURSIVE generateLoop(_, _, _, _)
generateLoop(orderedChanges, d, up, down) ==
    IF orderedChanges = <<>> THEN [upStatements |-> up, downStatements |-> down]
    ELSE LET r == generateChangeSQL(Head(orderedChanges), d)
         IN  generateLoop(Tail(orderedChanges), d, up \o r.up, r.down \o down)

generate(cs, d) == generateLoop(orderChanges(cs), d, <<>>, <<>>)

(***************************************************************************)
(* Inputs                                                                  *)
(***************************************************************************)
TypeInteger == <<"i","n","t","e","g","e","r">>
TypeIntegerSpaced == <<"I","N","T","E","G","E","R"," ">>
TypeText == <<"t","e","x","t">>
TypeVarchar == <<"v","a","r","c","h","a","r">>
TypeUuid == <<"u","u","i","d">>

Undefined == <<>>
Some(v) == <<v>>

\* the value of TableSchema.primaryKey that is consistent with the columns
PkOf(columns) ==
    LET pks == SelectSeq(columns, LAMBDA c : c.primaryKey)
    IN  [i \in 1..Len(pks) |-> pks[i].name]

Table(name, columns, indexes, foreignKeys) ==
    [name |-> name, columns |-> columns, indexes |-> indexes,
     foreignKeys |-> foreignKeys, primaryKey |-> PkOf(columns)]

\* every definition of one column x
XCols ==
    [name : {"x"},
     type : {TypeInteger, TypeIntegerSpaced, TypeText},
     notNull : BOOLEAN,
     defaultValue : {Undefined, Some(<<"0">>), Some(<<"'","0","'">>),
                     Some(<<"0"," ">>), Some(<<"1">>)},
     primaryKey : BOOLEAN,
     autoIncrement : BOOLEAN]

colId == [name |-> "id", type |-> TypeInteger, notNull |-> TRUE,
          defaultValue |-> Undefined, primaryKey |-> TRUE, autoIncrement |-> TRUE]
colY == [name |-> "y", type |-> TypeText, notNull |-> FALSE,
         defaultValue |-> Undefined, primaryKey |-> FALSE, autoIncrement |-> FALSE]
colY2 == [name |-> "y", type |-> TypeVarchar, notNull |-> TRUE,
          defaultValue |-> Some(<<"'","x","'">>), primaryKey |-> FALSE,
          autoIncrement |-> FALSE]
colZ == [name |-> "z", type |-> TypeUuid, notNull |-> TRUE,
         defaultValue |-> Undefined, primaryKey |-> TRUE, autoIncrement |-> FALSE]
colW == [name |-> "w", type |-> TypeInteger, notNull |-> TRUE,
         defaultValue |-> Undefined, primaryKey |-> TRUE, autoIncrement |-> FALSE]
ColPool == {colId, colY, colY2, colZ}

Index(name, columns, unique) == [name |-> name, columns |-> columns, unique |-> unique]
IndexPool ==
    {Index("i1", <<"y">>, FALSE), Index("i1", <<"y">>, TRUE),
     Index("i1", <<"y", "id">>, FALSE), Index("i1", <<"id", "y">>, FALSE),
     Index("i1", <<"id">>, FALSE), Index("i2", <<"id">>, TRUE),
     Index("i3", <<"y">>, FALSE)}

Fk(name, column, referencedTable, referencedColumn, onDelete, onUpdate) ==
    [name |-> name, column |-> column, referencedTable |-> referencedTable,
     referencedColumn |-> referencedColumn, onDelete |-> onDelete, onUpdate |-> onUpdate]
FkPool ==
    {Fk("f1", "y", "t", "id", Undefined, Undefined),
     Fk("f1", "id", "t", "id", Undefined, Undefined),
     Fk("f1", "y", "u", "id", Undefined, Undefined),
     Fk("f1", "y", "t", "y", Undefined, Undefined),
     Fk("f1", "y", "t", "id", Some("CASCADE"), Undefined),
     Fk("f1", "y", "t", "id", Undefined, Some("CASCADE")),
     Fk("f2", "y", "t", "id", Some("SET NULL"), Some("CASCADE")),
     Fk("f3", "id", "t", "y", Undefined, Undefined)}

\* tables that depend on one another through foreign keys
TablePool ==
    {Table("a", <<colId>>, <<>>, <<>>),
     Table("a", <<colId, colY>>, <<Index("i1", <<"y">>, FALSE)>>, <<>>),
     Table("a", <<colId, colY>>, <<>>, <<Fk("fa", "y", "b", "id", Undefined, Undefined)>>),
     Table("b", <<colId>>, <<>>, <<>>),
     Table("b", <<colW, colZ>>, <<Index("i2", <<"w">>, TRUE)>>,
           <<Fk("fb", "w", "a", "id", Some("CASCADE"), Undefined)>>),
     Table("c", <<colId, colW>>, <<>>, <<Fk("fc", "w", "a", "id", Undefined, Undefined)>>)}

\* one table t whose single column x takes every definition
ColumnSchemas == {<<Table("t", <<x>>, <<>>, <<>>)>> : x \in XCols}
\* one table t whose columns come and go
ColumnListSchemas == {<<Table("t", cs, <<>>, <<>>)>> : cs \in NamedSeqs(ColPool, MaxCols)}
\* one table t whose indexes come, go and change
IndexSchemas ==
    {<<Table("t", <<colId, colY>>, is, <<>>)>> : is \in NamedSeqs(IndexPool, MaxIdx)}
\* one table t whose foreign keys come, go and change
FkSchemas ==
    {<<Table("t", <<colId, colY>>, <<>>, fs)>> : fs \in NamedSeqs(FkPool, MaxFks)}
\* several tables
TableSchemas == NamedSeqs(TablePool, MaxTables)

AllSchemas == ColumnSchemas \cup ColumnListSchemas \cup IndexSchemas \cup FkSchemas
                \cup TableSchemas

SchemaPairs ==
    (ColumnSchemas \X ColumnSchemas) \cup (ColumnListSchemas \X ColumnListSchemas)
      \cup (IndexSchemas \X IndexSchemas) \cup (FkSchemas \X FkSchemas)
      \cup (TableSchemas \X TableSchemas)
      \cup ({<<>>} \X AllSchemas) \cup (AllSchemas \X {<<>>})

(***************************************************************************)
(* Text of names: String.prototype.split, parseInt, Array.prototype.sort   *)
(***************************************************************************)
Chars(s) == [i \in 1..Len(s) |-> SubSeq(s, i, i)]

\* String.prototype.startsWith and String.prototype.includes
StartsWith(s, p) == Len(s) >= Len(p) /\ SubSeq(s, 1, Len(p)) = p
Includes(s, p) == \E i \in 1..(Len(s) - Len(p) + 1) : SubSeq(s, i, i + Len(p) - 1) = p

Digits == "0123456789"
\* the characters of names in ascending UTF-16 code unit
CodeUnitOrder == "0123456789_abcdefghijklmnopqrstuvwxyz"
CodeUnit(c) == CHOOSE i \in 1..Len(CodeUnitOrder) : SubSeq(CodeUnitOrder, i, i) = c
DigitValue(c) == (CHOOSE i \in 1..Len(Digits) : SubSeq(Digits, i, i) = c) - 1
IsDigit(c) == \E i \in 1..Len(Digits) : SubSeq(Digits, i, i) = c

\* name.split('_')[0]
RECURSIVE beforeUnderscore(_)
beforeUnderscore(s) ==
    IF s = "" \/ SubSeq(s, 1, 1) = "_" THEN ""
    ELSE SubSeq(s, 1, 1) \o beforeUnderscore(SubSeq(s, 2, Len(s)))

\* parseInt of a string: its leading decimal digits, "NaN" when it has none
RECURSIVE parseDigits(_, _)
parseDigits(s, acc) ==
    IF s = "" \/ ~IsDigit(SubSeq(s, 1, 1)) THEN acc
    ELSE parseDigits(SubSeq(s, 2, Len(s)), 10 * acc + DigitValue(SubSeq(s, 1, 1)))

parseInt(s) == IF s = "" \/ ~IsDigit(SubSeq(s, 1, 1)) THEN "NaN" ELSE parseDigits(s, 0)

\* a < b in the default order of Array.prototype.sort (by UTF-16 code unit)
RECURSIVE StringLess(_, _)
StringLess(a, b) ==
    IF b = "" THEN FALSE
    ELSE IF a = "" THEN TRUE
    ELSE IF SubSeq(a, 1, 1) = SubSeq(b, 1, 1)
    THEN StringLess(SubSeq(a, 2, Len(a)), SubSeq(b, 2, Len(b)))
    ELSE CodeUnit(SubSeq(a, 1, 1)) < CodeUnit(SubSeq(b, 1, 1))

\* fs.readdirSync(folder).sort(), as base names
RECURSIVE sortNames(_)
sortNames(S) ==
    IF S = {} THEN <<>>
    ELSE LET least == CHOOSE n \in S : \A m \in S \ {n} : StringLess(n, m)
         IN  <<least>> \o sortNames(S \ {least})

\* Array.prototype.slice(start) with one argument
sliceFrom(arr, start) ==
    LET len == Len(arr)
        k == IF start < 0 THEN (IF len + start > 0 THEN len + start ELSE 0)
             ELSE (IF start < len THEN start ELSE len)
    IN  SubSeq(arr, k + 1, len)

(***************************************************************************)
(* MigrationTable (migration-table.ts)                                     *)
(***************************************************************************)
DefaultMigrationsTable == "__drizzle_migrations"

\* the table CREATE TABLE IF NOT EXISTS creates, as a TableSchema
migrationTableSchema(tableName, d) ==
    LET col(n, t, nn, pk, ai, def) ==
            [name |-> n, type |-> Chars(t), notNull |-> nn, defaultValue |-> def,
             primaryKey |-> pk, autoIncrement |-> ai]
        current == <<Chars("CURRENT_TIMESTAMP")>>
        columns ==
            IF d = "sqlite"
            THEN <<col("id", "integer", FALSE, TRUE, TRUE, <<>>),
                   col("name", "text", TRUE, FALSE, FALSE, <<>>),
                   col("timestamp", "integer", TRUE, FALSE, FALSE, <<>>),
                   col("executed_at", "datetime", FALSE, FALSE, FALSE, current)>>
            ELSE <<col("id", "integer", TRUE, TRUE, TRUE, <<>>),
                   col("name", "varchar", TRUE, FALSE, FALSE, <<>>),
                   col("timestamp", "bigint", TRUE, FALSE, FALSE, <<>>),
                   col("executed_at", "timestamp", FALSE, FALSE, FALSE, current)>>
    IN  [name |-> tableName, columns |-> columns, indexes |-> <<>>,
         foreignKeys |-> <<>>, primaryKey |-> <<"id">>]

\* SQLite keeps the counters of AUTOINCREMENT columns in sqlite_sequence
sqliteSequence ==
    [name |-> "sqlite_sequence",
     columns |-> <<[name |-> "name", type |-> <<>>, notNull |-> FALSE,
                    defaultValue |-> <<>>, primaryKey |-> FALSE, autoIncrement |-> FALSE],
                   [name |-> "seq", type |-> <<>>, notNull |-> FALSE,
                    defaultValue |-> <<>>, primaryKey |-> FALSE, autoIncrement |-> FALSE]>>,
     indexes |-> <<>>, foreignKeys |-> <<>>, primaryKey |-> <<>>]

\* What the catalog of the database lists for a table created as t: every
\* column with the position it has in the primary key (pk, 0 when it has
\* none: the pk of PRAGMA table_info, a PRIMARY KEY row of key_column_usage,
\* COLUMN_KEY = 'PRI'), every foreign key with its delete and update rule
\* ('NO ACTION' when none was declared), and the indexes other than the one
\* of the primary key.
KeyOrdinal(key, name) ==
    IF \E i \in DOMAIN key : key[i] = name
    THEN CHOOSE i \in DOMAIN key : key[i] = name
    ELSE 0

Catalog(t) ==
    [name |-> t.name,
     columns |-> [i \in DOMAIN t.columns |->
                     [name |-> t.columns[i].name, type |-> t.columns[i].type,
                      notNull |-> t.columns[i].notNull,
                      defaultValue |-> t.columns[i].defaultValue,
                      autoIncrement |-> t.columns[i].autoIncrement,
                      pk |-> KeyOrdinal(t.primaryKey, t.columns[i].name)]],
     indexes |-> t.indexes,
     foreignKeys |-> [i \in DOMAIN t.foreignKeys |->
                         LET fk == t.foreignKeys[i]
                         IN  [name |-> fk.name, column |-> fk.column,
                              referencedTable |-> fk.referencedTable,
                              referencedColumn |-> fk.referencedColumn,
                              delete_rule |-> IF fk.onDelete = <<>> THEN "NO ACTION"
                                              ELSE fk.onDelete[1],
                              update_rule |-> IF fk.onUpdate = <<>> THEN "NO ACTION"
                                              ELSE fk.onUpdate[1]]]]

CatalogOf(schema) == [i \in DOMAIN schema |-> Catalog(schema[i])]

\* CREATE TABLE IF NOT EXISTS <tableName>
ensureTable(db, tableName, d) ==
    LET created == IF Has(db, tableName) THEN db
                   ELSE Append(db, Catalog(migrationTableSchema(tableName, d)))
    IN  IF d = "sqlite" /\ ~Has(db, tableName) /\ ~Has(db, "sqlite_sequence")
        THEN Append(created, Catalog(sqliteSequence))
        ELSE created

\* a row of the tracking table is its name; its timestamp column holds
\* migration.timestamp = parseInt(name.split('_')[0])
timestampOf(name) == parseInt(beforeUnderscore(name))

\* SELECT * ... ORDER BY timestamp ASC
RECURSIVE orderByTimestamp(_)
orderByTimestamp(rows) ==
    IF rows = <<>> THEN <<>>
    ELSE LET i == CHOOSE i \in DOMAIN rows :
                     \A j \in DOMAIN rows :
                        \/ timestampOf(rows[i]) < timestampOf(rows[j])
                        \/ (timestampOf(rows[i]) = timestampOf(rows[j]) /\ i <= j)
         IN  <<rows[i]>> \o orderByTimestamp(SubSeq(rows, 1, i - 1)
                                                \o SubSeq(rows, i + 1, Len(rows)))

getExecutedMigrations(rows) == orderByTimestamp(rows)

\* the INSERT records nothing
addMigration_noRecord(rows, name) == rows

\* INSERT INTO <table> (name, timestamp) VALUES ...
addMigration(rows, name) == Append(rows, name)
\* DELETE FROM <table> WHERE name = ...
removeMigration(rows, name) == SelectSeq(rows, LAMBDA r : r # name)

(***************************************************************************)
(* SchemaIntrospector (schema-introspector.ts)                              *)
(***************************************************************************)
\* name LIKE 'sqlite_%': the prefix sqlite, any one character, then anything
LikeSqliteInternal(name) == Len(name) >= 7 /\ SubSeq(name, 1, 6) = "sqlite"

\* typeMap[type] || type
normalizePostgreSQLType(type) ==
    Chars(Lookup(<<<<"character varying", "varchar">>,
                   <<"timestamp without time zone", "timestamp">>,
                   <<"timestamp with time zone", "timestamptz">>,
                   <<"double precision", "double">>>>, Str(type), Str(type)))

\* every entry of the typeMap maps a name to itself
normalizeMySQLType(type) == type

normalizeSQLiteType(type) ==
    LET typeUpper == Str(toUpperCase(type))
    IN  IF Includes(typeUpper, "INT") THEN Chars("integer")
        ELSE IF Includes(typeUpper, "CHAR") \/ Includes(typeUpper, "TEXT")
        THEN Chars("text")
        ELSE IF \/ Includes(typeUpper, "REAL") \/ Includes(typeUpper, "FLOA")
                \/ Includes(typeUpper, "DOUB")
        THEN Chars("real")
        ELSE IF Includes(typeUpper, "BLOB") THEN Chars("blob")
        ELSE Chars("text")

\* is_primary_key: the column joins a PRIMARY KEY row of key_column_usage;
\* autoIncrement: column_default includes 'nextval'
introspectPostgreSQLColumn(col) ==
    [name |-> col.name, type |-> normalizePostgreSQLType(col.type),
     notNull |-> col.notNull, defaultValue |-> col.defaultValue,
     primaryKey |-> col.pk > 0, autoIncrement |-> col.autoIncrement]

\* COLUMN_KEY === 'PRI'; autoIncrement: EXTRA includes 'auto_increment'
introspectMySQLColumn(col) ==
    [name |-> col.name, type |-> normalizeMySQLType(col.type),
     notNull |-> col.notNull, defaultValue |-> col.defaultValue,
     primaryKey |-> col.pk > 0, autoIncrement |-> col.autoIncrement]

\* a row of PRAGMA table_info
introspectSQLiteColumn(col) ==
    [name |-> col.name, type |-> normalizeSQLiteType(col.type),
     notNull |-> col.notNull, defaultValue |-> col.defaultValue,
     primaryKey |-> col.pk = 1,
     autoIncrement |-> col.pk = 1 /\ Str(toUpperCase(col.type)) = "INTEGER"]

introspectPostgreSQLForeignKey(fk) ==
    [name |-> fk.name, column |-> fk.column, referencedTable |-> fk.referencedTable,
     referencedColumn |-> fk.referencedColumn,
     onDelete |-> IF fk.delete_rule # "NO ACTION" THEN <<fk.delete_rule>> ELSE Undefined,
     onUpdate |-> IF fk.update_rule # "NO ACTION" THEN <<fk.update_rule>> ELSE Undefined]

\* the query reads KEY_COLUMN_USAGE only, and the object has no onDelete / onUpdate
introspectMySQLForeignKey(fk) ==
    [name |-> fk.name, column |-> fk.column, referencedTable |-> fk.referencedTable,
     referencedColumn |-> fk.referencedColumn,
     onDelete |-> Undefined, onUpdate |-> Undefined]

\* a row of PRAGMA foreign_key_list, which has no constraint name
introspectSQLiteForeignKey(tableName, fk) ==
    [name |-> "fk_" \o tableName \o "_" \o fk.column \o "_" \o fk.referencedTable,
     column |-> fk.column, referencedTable |-> fk.referencedTable,
     referencedColumn |-> fk.referencedColumn,
     onDelete |-> IF fk.delete_rule # "NO ACTION" THEN <<fk.delete_rule>> ELSE Undefined,
     onUpdate |-> IF fk.update_rule # "NO ACTION" THEN <<fk.update_rule>> ELSE Undefined]

\* the TableSchema put together for one table of the catalog
introspectTable(t, d) ==
    LET columns ==
            [i \in DOMAIN t.columns |->
                CASE d = "postgresql" -> introspectPostgreSQLColumn(t.columns[i])
                  [] d = "mysql" -> introspectMySQLColumn(t.columns[i])
                  [] d = "sqlite" -> introspectSQLiteColumn(t.columns[i])]
        foreignKeys ==
            [i \in DOMAIN t.foreignKeys |->
                CASE d = "postgresql" -> introspectPostgreSQLForeignKey(t.foreignKeys[i])
                  [] d = "mysql" -> introspectMySQLForeignKey(t.foreignKeys[i])
                  [] d = "sqlite" -> introspectSQLiteForeignKey(t.name, t.foreignKeys[i])]
    IN  [name |-> t.name, columns |-> columns, indexes |-> t.indexes,
         foreignKeys |-> foreignKeys, primaryKey |-> PkOf(columns)]

introspect(db, d) ==
    LET listed == SelectSeq(db, LAMBDA t :
                      /\ t.name # "__drizzle_migrations"
                      /\ (d = "sqlite" => ~LikeSqliteInternal(t.name)))
    IN  [i \in DOMAIN listed |-> introspectTable(listed[i], d)]

(***************************************************************************)
(* Migrator (migrator.ts): the lists its calls compute                     *)
(***************************************************************************)
loadAllMigrations(folder) == sortNames(folder)

getPendingMigrations_reversed(folder, rows) ==
    LET executedNames == Range(getExecutedMigrations(rows))
    IN  Reverse(SelectSeq(loadAllMigrations(folder), LAMBDA m : m \notin executedNames))

getPendingMigrations(folder, rows) ==
    LET executedNames == Range(getExecutedMigrations(rows))
    IN  SelectSeq(loadAllMigrations(folder), LAMBDA m : m \notin executedNames)

\* executedMigrations.slice(-count).reverse()
revertMigrationPlan(rows, count) ==
    Reverse(sliceFrom(getExecutedMigrations(rows), 0 - count))

\* executedMigrations.findIndex((m) => m.name === targetName), from 0
findIndex(arr, name) ==
    IF \E i \in DOMAIN arr : arr[i] = name
    THEN (CHOOSE i \in DOMAIN arr : arr[i] = name /\ \A j \in 1..(i - 1) : arr[j] # name) - 1
    ELSE -1

\* executedMigrations.slice(targetIndex + 1).reverse()
revertToPlan_inclusive(rows, targetName) ==
    LET executedMigrations == getExecutedMigrations(rows)
    IN  Reverse(sliceFrom(executedMigrations, findIndex(executedMigrations, targetName)))

revertToPlan(rows, targetName) ==
    LET executedMigrations == getExecutedMigrations(rows)
    IN  Reverse(sliceFrom(executedMigrations, findIndex(executedMigrations, targetName) + 1))

getStatus_allPending(folder, rows) ==
    [executed |-> getExecutedMigrations(rows), pending |-> loadAllMigrations(folder)]

getStatus(folder, rows) ==
    LET executed == getExecutedMigrations(rows)
        executedNames == Range(executed)
    IN  [executed |-> executed,
         pending |-> SelectSeq(loadAllMigrations(folder), LAMBDA m : m \notin executedNames)]

NoCall == [op |-> "none", count |-> 0, target |-> "", failOnPending |-> FALSE,
           validation |-> [errors |-> <<>>, warnings |-> <<>>],
           folderExists |-> TRUE, executedMigrations |-> <<>>]
NoResult == [kind |-> "none"]

\* no Migrator in the picture: the values its variables hold throughout
MigratorIdle ==
    /\ migrationsTable = DefaultMigrationsTable
    /\ database = <<>>
    /\ files = {}
    /\ tracking = <<>>
    /\ working = <<>>
    /\ txOpen = FALSE
    /\ call = NoCall
    /\ queue = <<>>
    /\ done = <<>>
    /\ mpc = "idle"
    /\ events = <<>>
    /\ before = [tracking |-> <<>>, files |-> {}]
    /\ result = NoResult

(***************************************************************************)
(* The pipeline of MigrationGenerator: diff, then generate                 *)
(***************************************************************************)
Init ==
    /\ \E p \in SchemaPairs : currentSchema = p[1] /\ desiredSchema = p[2]
    /\ changes = <<>>
    /\ input = <<>>
    /\ dialect = "none"
    /\ upStatements = <<>>
    /\ downStatements = <<>>
    /\ pc = "diff"
    /\ MigratorIdle

\* const changes = differ.diff()
Diff ==
    /\ pc = "diff"
    /\ changes' = diff(currentSchema, desiredSchema)
    /\ pc' = "generate"
    /\ UNCHANGED <<currentSchema, desiredSchema, input, dialect, upStatements,
                   downStatements>>
    /\ UNCHANGED migratorVars

\* new SqlGenerator(d).generate(changes); Array.prototype.sort sorts the
\* caller's array in place
Generate(d) ==
    /\ pc = "generate"
    /\ dialect' = d
    /\ input' = changes
    /\ \E r \in {generate(changes, d)} :
           /\ upStatements' = r.upStatements
           /\ downStatements' = r.downStatements
    /\ changes' = orderChanges(changes)
    /\ pc' = "done"
    /\ UNCHANGED <<currentSchema, desiredSchema>>
    /\ UNCHANGED migratorVars

Next == Diff \/ \E d \in Dialects : Generate(d)

Spec == Init /\ [][Next]_vars

(***************************************************************************)
(* generate called directly, on any list of changes                        *)
(***************************************************************************)
tableT == Table("t", <<colW, colZ>>, <<>>, <<>>)
tableU == Table("u", <<colId, colY2>>, <<>>, <<>>)

AlterTable(tableChanges) ==
    [type |-> "alter_table", table |-> "t",
     details |-> [changes |-> tableChanges, currentTable |-> tableT,
                  desiredTable |-> tableT]]

AddColumn(c) == [type |-> "add_column", column |-> c.name, details |-> [column |-> c]]
DropColumn(c) == [type |-> "drop_column", column |-> c.name, details |-> [column |-> c]]
ModifyColumn(c, d) ==
    [type |-> "modify_column", column |-> d.name,
     details |-> [currentColumn |-> c, desiredColumn |-> d]]

ChangePool ==
    {[type |-> "create_table", table |-> "t", details |-> [tableSchema |-> tableT]],
     [type |-> "drop_table", table |-> "u", details |-> [tableSchema |-> tableU]],
     AlterTable(<<>>),
     AlterTable(<<DropColumn(colY2), AddColumn(colId)>>),
     AlterTable(<<ModifyColumn(colY, colY2), AddColumn(colZ), DropColumn(colW)>>),
     [type |-> "create_index", table |-> "t",
      details |-> [index |-> Index("i1", <<"y", "id">>, TRUE)]],
     [type |-> "drop_index", table |-> "u",
      details |-> [index |-> Index("i2", <<"id">>, FALSE)]],
     [type |-> "add_foreign_key", table |-> "t",
      details |-> [foreignKey |-> Fk("f2", "y", "u", "id", Some("SET NULL"), Some("CASCADE"))]],
     [type |-> "drop_foreign_key", table |-> "u",
      details |-> [foreignKey |-> Fk("f1", "y", "t", "id", Undefined, Undefined)]]}

RECURSIVE SeqsUpTo(_, _)
SeqsUpTo(S, n) ==
    IF n = 0 THEN {<<>>}
    ELSE LET shorter == SeqsUpTo(S, n - 1)
         IN  shorter \cup {Append(p[1], p[2]) : p \in {q \in shorter \X S : Len(q[1]) = n - 1}}

InitGen ==
    /\ currentSchema = <<>>
    /\ desiredSchema = <<>>
    /\ changes \in SeqsUpTo(ChangePool, MaxChanges)
    /\ input = <<>>
    /\ dialect = "none"
    /\ upStatements = <<>>
    /\ downStatements = <<>>
    /\ pc = "generate"
    /\ MigratorIdle

NextGen == \E d \in Dialects : Generate(d)

SpecGen == InitGen /\ [][NextGen]_vars

(***************************************************************************)
(* Migrator calls, one step per await                                      *)
(***************************************************************************)
MaxMigrations == 3
MaxCount == 4

\* file names as the generate command writes them: <timestamp>_<name>
AllNames == <<"1_a", "2_b", "3_c", "4_d", "5_e">>
NamePool == {AllNames[i] : i \in 1..MaxMigrations}

\* the outcomes of MigrationValidator.validate() on the folder
ValidationPool ==
    {[errors |-> <<>>, warnings |-> <<>>],
     [errors |-> <<>>, warnings |-> <<"No migration files found.">>],
     [errors |-> <<"1_a.ts: Missing \"up\" function">>, warnings |-> <<>>]}

pipelineVars == <<currentSchema, desiredSchema, changes, input, dialect, upStatements,
                  downStatements, pc>>

InitMigrator ==
    /\ currentSchema = <<>>
    /\ desiredSchema = <<>>
    /\ changes = <<>>
    /\ input = <<>>
    /\ dialect = "postgresql"
    /\ upStatements = <<>>
    /\ downStatements = <<>>
    /\ pc = "idle"
    /\ migrationsTable = DefaultMigrationsTable
    /\ database = <<>>
    /\ files \in SUBSET NamePool
    /\ tracking = <<>>
    /\ working = <<>>
    /\ txOpen = FALSE
    /\ call = NoCall
    /\ queue = <<>>
    /\ done = <<>>
    /\ mpc = "idle"
    /\ events = <<>>
    /\ before = [tracking |-> <<>>, files |-> {}]
    /\ result = NoResult

\* a migration file appears in the folder between two calls
AddFile(name) ==
    /\ mpc = "idle"
    /\ pc = "idle"
    /\ name \notin files
    /\ files' = files \cup {name}
    /\ UNCHANGED <<migrationsTable, database, tracking, working, txOpen, call, queue,
                   done, mpc, events, before, result>>
    /\ UNCHANGED pipelineVars

\* the call begins; it first awaits this.initialize()
StartCall(c) ==
    /\ mpc = "idle"
    /\ pc \in {"idle", "introspect"}
    /\ call' = c
    /\ mpc' = "initialize"
    /\ queue' = <<>>
    /\ done' = <<>>
    /\ events' = <<>>
    /\ before' = [tracking |-> tracking, files |-> files]
    /\ result' = NoResult
    /\ UNCHANGED <<migrationsTable, database, files, tracking, working, txOpen>>
    /\ UNCHANGED pipelineVars

RunMigrations == StartCall([NoCall EXCEPT !.op = "runMigrations"])
RevertMigration(count) == StartCall([NoCall EXCEPT !.op = "revertMigration", !.count = count])
RevertTo(targetName) == StartCall([NoCall EXCEPT !.op = "revertTo", !.target = targetName])
GetStatus == StartCall([NoCall EXCEPT !.op = "getStatus"])
\* the check command: validator.check(() => migrator.getStatus(), { failOnPending })
Check(failOnPending, validation) ==
    StartCall([NoCall EXCEPT !.op = "check", !.failOnPending = failOnPending,
                             !.validation = validation])

\* every file that is not executed draws the warning
checkForConflicts_allUnexecuted(exists, folder, executedMigrations) ==
    LET early == SelectSeq(sortNames(folder),
                           LAMBDA f : f \notin Range(executedMigrations))
    IN  [valid |-> TRUE, errors |-> <<>>,
         warnings |-> [i \in DOMAIN early |->
                          "Migration " \o early[i]
                             \o " has an earlier timestamp than executed migrations. "
                             \o "This may cause issues in other environments."]]

\* MigrationValidator.checkForConflicts: files sorted before the last executed
\* one that are not executed draw a warning; nothing is ever pushed to errors;
\* exists is fs.existsSync(this.migrationsFolder)
checkForConflicts(exists, folder, executedMigrations) ==
    IF ~exists THEN [valid |-> TRUE, errors |-> <<>>, warnings |-> <<>>]
    ELSE
    LET sorted == sortNames(folder)
        executedSet == Range(executedMigrations)
        lastExecuted == {i \in DOMAIN sorted : sorted[i] \in executedSet}
        lastExecutedIndex == IF lastExecuted = {} THEN 0
                             ELSE CHOOSE i \in lastExecuted : \A j \in lastExecuted : j <= i
        early == SelectSeq(SubSeq(sorted, 1, lastExecutedIndex - 1),
                           LAMBDA f : f \notin executedSet)
        errors == <<>>
    IN  [valid |-> Len(errors) = 0, errors |-> errors,
         warnings |-> [i \in DOMAIN early |->
                          "Migration " \o early[i]
                             \o " has an earlier timestamp than executed migrations. "
                             \o "This may cause issues in other environments."]]

check_ignoresPending(outcome, failOnPending, validation, folder) ==
    IF outcome.kind = "throw"
    THEN [valid |-> FALSE, hasPendingMigrations |-> FALSE,
          hasValidationErrors |-> Len(validation.errors) > 0,
          executed |-> 0, pending |-> 0,
          errors |-> validation.errors
                       \o <<"Failed to connect to database: " \o outcome.error>>,
          warnings |-> validation.warnings]
    ELSE LET conflictCheck == checkForConflicts(TRUE, folder, outcome.executed)
             allErrors == validation.errors \o conflictCheck.errors
             allWarnings == validation.warnings \o conflictCheck.warnings
             hasPendingMigrations == Len(outcome.pending) > 0
             hasValidationErrors == Len(allErrors) > 0
         IN  [valid |-> ~hasValidationErrors,
              hasPendingMigrations |-> hasPendingMigrations,
              hasValidationErrors |-> hasValidationErrors,
              executed |-> Len(outcome.executed), pending |-> Len(outcome.pending),
              errors |-> allErrors, warnings |-> allWarnings]

\* MigrationValidator.check, given what getStatus() returned or threw
check(outcome, failOnPending, validation, folder) ==
    IF outcome.kind = "throw"
    THEN [valid |-> FALSE, hasPendingMigrations |-> FALSE,
          hasValidationErrors |-> Len(validation.errors) > 0,
          executed |-> 0, pending |-> 0,
          errors |-> validation.errors
                       \o <<"Failed to connect to database: " \o outcome.error>>,
          warnings |-> validation.warnings]
    ELSE LET conflictCheck == checkForConflicts(TRUE, folder, outcome.executed)
             allErrors == validation.errors \o conflictCheck.errors
             allWarnings == validation.warnings \o conflictCheck.warnings
             hasPendingMigrations == Len(outcome.pending) > 0
             hasValidationErrors == Len(allErrors) > 0
         IN  [valid |-> ~hasValidationErrors /\ (~failOnPending \/ ~hasPendingMigrations),
              hasPendingMigrations |-> hasPendingMigrations,
              hasValidationErrors |-> hasValidationErrors,
              executed |-> Len(outcome.executed), pending |-> Len(outcome.pending),
              errors |-> allErrors, warnings |-> allWarnings]

\* the check command of the CLI: process.exit(0) if result.valid, else process.exit(1)
cliCheck(outcome, failOnPending, validation, folder) ==
    LET checkResult == check(outcome, failOnPending, validation, folder)
    IN  [kind |-> "check", check |-> checkResult,
         exitCode |-> IF checkResult.valid THEN 0 ELSE 1, status |-> outcome]

\* the call settles with outcome (a return value or a thrown error)
Finish(outcome) ==
    /\ result' = IF call.op = "check"
                 THEN cliCheck(outcome, call.failOnPending, call.validation, files)
                 ELSE outcome
    /\ mpc' = "idle"

Returned(success, list) == [kind |-> "return", success |-> success, list |-> list]
Thrown(error) == [kind |-> "throw", error |-> error]

\* await this.migrationTable.ensureTable(): the statement runs or the database rejects it
Initialize ==
    /\ mpc = "initialize"
    /\ \/ /\ database' = ensureTable(database, migrationsTable, dialect)
          /\ mpc' = "plan"
          /\ UNCHANGED result
       \/ /\ Finish(Thrown("connection refused"))
          /\ UNCHANGED database
    /\ UNCHANGED <<migrationsTable, files, tracking, working, txOpen, call, queue, done,
                   events, before>>
    /\ UNCHANGED pipelineVars

\* runMigrations: getPendingMigrations(), which loads every file of the folder
PlanRunMigrations ==
    /\ mpc = "plan"
    /\ call.op = "runMigrations"
    /\ \/ /\ files # {}
          /\ Finish(Thrown("cannot load migration"))
          /\ UNCHANGED queue
       \/ \E pendingMigrations \in {getPendingMigrations(files, tracking)} :
             IF Len(pendingMigrations) = 0
             THEN Finish(Returned(TRUE, <<>>)) /\ UNCHANGED queue
             ELSE queue' = pendingMigrations /\ mpc' = "begin" /\ UNCHANGED result
    /\ UNCHANGED <<migrationsTable, database, files, tracking, working, txOpen, call,
                   done, events, before>>
    /\ UNCHANGED pipelineVars

\* revertMigration(count): the last count executed migrations, newest first
PlanRevertMigration ==
    /\ mpc = "plan"
    /\ call.op = "revertMigration"
    /\ \E toRevert \in {revertMigrationPlan(tracking, call.count)} :
          IF Len(toRevert) = 0
          THEN Finish(Returned(TRUE, <<>>)) /\ UNCHANGED queue
          ELSE queue' = toRevert /\ mpc' = "load" /\ UNCHANGED result
    /\ UNCHANGED <<migrationsTable, database, files, tracking, working, txOpen, call,
                   done, events, before>>
    /\ UNCHANGED pipelineVars

\* revertTo(targetName): throws when the target is not executed
PlanRevertTo ==
    /\ mpc = "plan"
    /\ call.op = "revertTo"
    /\ IF findIndex(getExecutedMigrations(tracking), call.target) = -1
       THEN Finish(Thrown("Migration not found in executed migrations.")) /\ UNCHANGED queue
       ELSE \E toRevert \in {revertToPlan(tracking, call.target)} :
               IF Len(toRevert) = 0
               THEN Finish(Returned(TRUE, <<>>)) /\ UNCHANGED queue
               ELSE queue' = toRevert /\ mpc' = "load" /\ UNCHANGED result
    /\ UNCHANGED <<migrationsTable, database, files, tracking, working, txOpen, call,
                   done, events, before>>
    /\ UNCHANGED pipelineVars

\* getStatus(): the executed rows and the pending file names
PlanGetStatus ==
    /\ mpc = "plan"
    /\ call.op \in {"getStatus", "check"}
    /\ \/ /\ files # {}
          /\ Finish(Thrown("cannot load migration"))
       \/ \E status \in {getStatus(files, tracking)} :
             Finish([kind |-> "return", executed |-> status.executed,
                     pending |-> status.pending])
    /\ UNCHANGED <<migrationsTable, database, files, tracking, working, txOpen, call,
                   queue, done, events, before>>
    /\ UNCHANGED pipelineVars

Direction == IF call.op = "runMigrations" THEN "up" ELSE "down"

\* the catch of the loop: return { success: false, executed / reverted }
LoopCatch == Finish(Returned(FALSE, done))

Event(e, name, ok) == [e |-> e, name |-> name, ok |-> ok]

\* revert loops: await this.loadMigration(meta.name), inside the try
Load ==
    /\ mpc = "load"
    /\ \/ /\ Head(queue) \in files
          /\ mpc' = "begin"
          /\ UNCHANGED result
       \/ LoopCatch
    /\ UNCHANGED <<migrationsTable, database, files, tracking, working, txOpen, call,
                   queue, done, events, before>>
    /\ UNCHANGED pipelineVars

\* beginTransaction(): BEGIN, then START TRANSACTION if BEGIN is rejected;
\* when both are rejected it throws, outside the try of runMigrationInTransaction
Begin ==
    /\ mpc = "begin"
    /\ \/ /\ events' = events \o <<Event("BEGIN", Head(queue), TRUE)>>
          /\ txOpen' = TRUE
          /\ working' = tracking
          /\ mpc' = "body"
          /\ UNCHANGED result
       \/ /\ events' = events \o <<Event("BEGIN", Head(queue), FALSE),
                                   Event("START TRANSACTION", Head(queue), TRUE)>>
          /\ txOpen' = TRUE
          /\ working' = tracking
          /\ mpc' = "body"
          /\ UNCHANGED result
       \/ /\ events' = events \o <<Event("BEGIN", Head(queue), FALSE),
                                   Event("START TRANSACTION", Head(queue), FALSE)>>
          /\ LoopCatch
          /\ UNCHANGED <<txOpen, working>>
    /\ UNCHANGED <<migrationsTable, database, files, tracking, call, queue, done, before>>
    /\ UNCHANGED pipelineVars

\* await migration.up(context) / migration.down(context)
Body ==
    /\ mpc = "body"
    /\ \E ok \in BOOLEAN :
          /\ events' = events \o <<Event(Direction, Head(queue), ok)>>
          /\ mpc' = IF ok THEN "bookkeep" ELSE "rollback"
    /\ UNCHANGED <<migrationsTable, database, files, tracking, working, txOpen, call,
                   queue, done, before, result>>
    /\ UNCHANGED pipelineVars

\* the bookkeeping statement writes past the transaction
Bookkeep_autocommit ==
    /\ mpc = "bookkeep"
    /\ \/ /\ events' = events \o <<Event("bookkeep", Head(queue), TRUE)>>
          /\ tracking' = IF Direction = "up" THEN addMigration(tracking, Head(queue))
                         ELSE removeMigration(tracking, Head(queue))
          /\ working' = tracking'
          /\ mpc' = "commit"
       \/ /\ events' = events \o <<Event("bookkeep", Head(queue), FALSE)>>
          /\ mpc' = "rollback"
          /\ UNCHANGED <<working, tracking>>
    /\ UNCHANGED <<migrationsTable, database, files, txOpen, call, queue, done,
                   before, result>>
    /\ UNCHANGED pipelineVars

\* await this.migrationTable.addMigration(...) / removeMigration(...)
Bookkeep ==
    /\ mpc = "bookkeep"
    /\ \/ /\ events' = events \o <<Event("bookkeep", Head(queue), TRUE)>>
          /\ working' = IF Direction = "up" THEN addMigration(working, Head(queue))
                        ELSE removeMigration(working, Head(queue))
          /\ mpc' = "commit"
       \/ /\ events' = events \o <<Event("bookkeep", Head(queue), FALSE)>>
          /\ mpc' = "rollback"
          /\ UNCHANGED working
    /\ UNCHANGED <<migrationsTable, database, files, tracking, txOpen, call, queue, done,
                   before, result>>
    /\ UNCHANGED pipelineVars

\* commitTransaction(); on success the loop pushes the name and goes on to
\* the next migration, or returns { success: true, ... } after the last one
Commit ==
    /\ mpc = "commit"
    /\ \/ /\ events' = events \o <<Event("COMMIT", Head(queue), TRUE)>>
          /\ tracking' = working
          /\ txOpen' = FALSE
          /\ done' = Append(done, Head(queue))
          /\ queue' = Tail(queue)
          /\ IF Tail(queue) = <<>>
             THEN Finish(Returned(TRUE, Append(done, Head(queue))))
             ELSE /\ mpc' = IF Direction = "up" THEN "begin" ELSE "load"
                  /\ UNCHANGED result
       \/ /\ events' = events \o <<Event("COMMIT", Head(queue), FALSE)>>
          /\ mpc' = "rollback"
          /\ UNCHANGED <<tracking, txOpen, done, queue, result>>
    /\ UNCHANGED <<migrationsTable, database, files, working, call, before>>
    /\ UNCHANGED pipelineVars

\* rollbackTransaction(), then throw error: ROLLBACK ends the transaction; when
\* the statement itself is rejected the error is logged and swallowed, the
\* connection is gone and the database discards the transaction
Rollback ==
    /\ mpc = "rollback"
    /\ \E ok \in BOOLEAN : events' = events \o <<Event("ROLLBACK", Head(queue), ok)>>
    /\ working' = tracking
    /\ txOpen' = FALSE
    /\ LoopCatch
    /\ UNCHANGED <<migrationsTable, database, files, tracking, call, queue, done, before>>
    /\ UNCHANGED pipelineVars

NextMigrator ==
    \/ \E name \in NamePool : AddFile(name)
    \/ RunMigrations
    \/ \E count \in 0..MaxCount : RevertMigration(count)
    \/ \E targetName \in NamePool : RevertTo(targetName)
    \/ GetStatus
    \/ \E failOnPending \in BOOLEAN, validation \in ValidationPool :
          Check(failOnPending, validation)
    \/ Initialize
    \/ PlanRunMigrations
    \/ PlanRevertMigration
    \/ PlanRevertTo
    \/ PlanGetStatus
    \/ Load
    \/ Begin
    \/ Body
    \/ Bookkeep
    \/ Commit
    \/ Rollback

SpecMigrator == InitMigrator /\ [][NextMigrator]_vars

(***************************************************************************)
(* The Migrator on a folder of hand-named files: numeric prefixes of       *)
(* different digit counts, and equal prefixes                              *)
(***************************************************************************)
HandNamedPool == {"9_a", "10_b", "10_c"}

InitHandNamed ==
    /\ currentSchema = <<>>
    /\ desiredSchema = <<>>
    /\ changes = <<>>
    /\ input = <<>>
    /\ dialect = "postgresql"
    /\ upStatements = <<>>
    /\ downStatements = <<>>
    /\ pc = "idle"
    /\ migrationsTable = DefaultMigrationsTable
    /\ database = <<>>
    /\ files \in SUBSET HandNamedPool
    /\ tracking = <<>>
    /\ working = <<>>
    /\ txOpen = FALSE
    /\ call = NoCall
    /\ queue = <<>>
    /\ done = <<>>
    /\ mpc = "idle"
    /\ events = <<>>
    /\ before = [tracking |-> <<>>, files |-> {}]
    /\ result = NoResult

NextHandNamed ==
    \/ RunMigrations
    \/ \E count \in 1..2 : RevertMigration(count)
    \/ \E targetName \in HandNamedPool : RevertTo(targetName)
    \/ Initialize
    \/ PlanRunMigrations
    \/ PlanRevertMigration
    \/ PlanRevertTo
    \/ Load
    \/ Begin
    \/ Body
    \/ Bookkeep
    \/ Commit
    \/ Rollback

SpecHandNamed == InitHandNamed /\ [][NextHandNamed]_vars

(***************************************************************************)
(* MigrationValidator.checkForConflicts called on its own                  *)
(***************************************************************************)
\* the lists of executed names a caller hands over: any names, each once
ExecutedLists ==
    {ex \in SeqsUpTo(NamePool, MaxMigrations) :
        \A i, j \in DOMAIN ex : i # j => ex[i] # ex[j]}

\* validator.checkForConflicts(executedMigrations); a folder that does not
\* exist holds no file
CheckForConflicts(exists, executedMigrations) ==
    /\ mpc = "idle"
    /\ pc = "idle"
    /\ ~exists => files = {}
    /\ call' = [NoCall EXCEPT !.op = "checkForConflicts", !.folderExists = exists,
                              !.executedMigrations = executedMigrations]
    /\ before' = [tracking |-> tracking, files |-> files]
    /\ result' = checkForConflicts(exists, files, executedMigrations)
    /\ queue' = <<>>
    /\ done' = <<>>
    /\ events' = <<>>
    /\ UNCHANGED <<migrationsTable, database, files, tracking, working, txOpen, mpc>>
    /\ UNCHANGED pipelineVars

NextConflicts ==
    \/ \E name \in NamePool : AddFile(name)
    \/ \E exists \in BOOLEAN, executedMigrations \in ExecutedLists :
          CheckForConflicts(exists, executedMigrations)

SpecConflicts == InitMigrator /\ [][NextConflicts]_vars

(***************************************************************************)
(* The generate command on a live database: introspect, diff, generate     *)
(***************************************************************************)
MigrationsTableNames == {DefaultMigrationsTable, "schema_migrations"}

InitIntrospect ==
    /\ currentSchema = <<>>
    /\ \E declared \in TableSchemas :
          /\ database = CatalogOf(declared)
          /\ desiredSchema \in {<<>>, declared}
    /\ changes = <<>>
    /\ input = <<>>
    /\ dialect \in Dialects
    /\ upStatements = <<>>
    /\ downStatements = <<>>
    /\ pc = "introspect"
    /\ migrationsTable \in MigrationsTableNames
    /\ files = {}
    /\ tracking = <<>>
    /\ working = <<>>
    /\ txOpen = FALSE
    /\ call = NoCall
    /\ queue = <<>>
    /\ done = <<>>
    /\ mpc = "idle"
    /\ events = <<>>
    /\ before = [tracking |-> <<>>, files |-> {}]
    /\ result = NoResult

\* const currentSchema = await introspector.introspect()
Introspect ==
    /\ pc = "introspect"
    /\ mpc = "idle"
    /\ currentSchema' = introspect(database, dialect)
    /\ pc' = "diff"
    /\ UNCHANGED <<desiredSchema, changes, input, dialect, upStatements, downStatements>>
    /\ UNCHANGED migratorVars

\* new SqlGenerator(this.dialect).generate(changes), skipped when there are no changes
GenerateSql == Len(changes) > 0 /\ Generate(dialect)

NextIntrospect ==
    \/ GetStatus
    \/ Initialize
    \/ PlanGetStatus
    \/ Introspect
    \/ Diff
    \/ GenerateSql

SpecIntrospect == InitIntrospect /\ [][NextIntrospect]_vars

(***************************************************************************)
(* Properties of the differ (specification Spec)                           *)
(***************************************************************************)
Count(seq, P(_)) == Cardinality({i \in DOMAIN seq : P(seq[i])})

\* names of the tables present in both schemas
CommonTables == {desiredSchema[i].name : i \in {k \in DOMAIN desiredSchema :
                                                  Has(currentSchema, desiredSchema[k].name)}}

AlterPositions(n) ==
    {i \in DOMAIN changes : changes[i].type = "alter_table" /\ changes[i].table = n}

\* the TableChange list of the alter_table emitted for table n, if any
TableChangesOf(n) ==
    IF AlterPositions(n) = {} THEN <<>>
    ELSE changes[CHOOSE i \in AlterPositions(n) : TRUE].details.changes

\* C1: for every DatabaseSchema S, SchemaDiffer(S, S).diff() returns an
\* empty change list.
DiffOfSelfIsEmpty ==
    (pc = "generate" /\ currentSchema = desiredSchema) => changes = <<>>

DiffOfSelfWitness ==
    /\ pc = "generate"
    /\ currentSchema = desiredSchema
    /\ Len(currentSchema) = 2
    /\ \E i \in DOMAIN currentSchema : currentSchema[i].indexes # <<>>
    /\ \E i \in DOMAIN currentSchema : currentSchema[i].foreignKeys # <<>>

\* C2: diffing the empty schema against {T} yields exactly one create_table
\* for T, one create_index per index of T and one add_foreign_key per foreign
\* key of T, and nothing else; diffing {T} against the empty schema yields
\* exactly one change, a drop_table carrying T.
CreateDropSymmetry ==
    pc = "generate" =>
      /\ (currentSchema = <<>> /\ Len(desiredSchema) = 1) =>
            LET T == desiredSchema[1]
            IN  /\ Len(changes) = 1 + Len(T.indexes) + Len(T.foreignKeys)
                /\ Count(changes, LAMBDA c :
                        c = [type |-> "create_table", table |-> T.name,
                             details |-> [tableSchema |-> T]]) = 1
                /\ \A k \in DOMAIN T.indexes :
                      Count(changes, LAMBDA c :
                        c = [type |-> "create_index", table |-> T.name,
                             details |-> [index |-> T.indexes[k]]]) = 1
                /\ \A k \in DOMAIN T.foreignKeys :
                      Count(changes, LAMBDA c :
                        c = [type |-> "add_foreign_key", table |-> T.name,
                             details |-> [foreignKey |-> T.foreignKeys[k]]]) = 1
      /\ (desiredSchema = <<>> /\ Len(currentSchema) = 1) =>
            changes = <<[type |-> "drop_table", table |-> currentSchema[1].name,
                         details |-> [tableSchema |-> currentSchema[1]]]>>

CreateDropWitness ==
    /\ pc = "generate"
    /\ currentSchema = <<>>
    /\ Len(desiredSchema) = 1
    /\ desiredSchema[1].indexes # <<>>
    /\ desiredSchema[1].foreignKeys # <<>>
    /\ Len(changes) = 3

\* C3: for a table present in both schemas, a column only in desired yields
\* exactly one add_column, a column only in current exactly one drop_column,
\* a column in both a modify_column if and only if the normalized types, the
\* notNull flags, the primaryKey flags or the normalized defaults differ;
\* nothing else is emitted, and an alter_table only with at least one
\* TableChange.
ColumnDiffExact ==
    pc = "generate" =>
      \A n \in CommonTables :
        LET cur == Get(currentSchema, n).columns
            des == Get(desiredSchema, n).columns
            tc == TableChangesOf(n)
            On(name) == Count(tc, LAMBDA e : e.column = name)
        IN  /\ Cardinality(AlterPositions(n)) <= 1
            /\ AlterPositions(n) # {} => Len(tc) > 0
            /\ \A e \in Range(tc) : Has(cur, e.column) \/ Has(des, e.column)
            /\ \A i \in DOMAIN cur :
                  ~Has(des, cur[i].name) =>
                     On(cur[i].name) = 1 /\ DropColumn(cur[i]) \in Range(tc)
            /\ \A i \in DOMAIN des :
                  IF ~Has(cur, des[i].name)
                  THEN On(des[i].name) = 1 /\ AddColumn(des[i]) \in Range(tc)
                  ELSE LET c == Get(cur, des[i].name)
                           d == des[i]
                       IN  IF \/ normalizeType(c.type) # normalizeType(d.type)
                              \/ c.notNull # d.notNull
                              \/ c.primaryKey # d.primaryKey
                              \/ normalizeDefault(c.defaultValue)
                                    # normalizeDefault(d.defaultValue)
                           THEN On(d.name) = 1 /\ ModifyColumn(c, d) \in Range(tc)
                           ELSE On(d.name) = 0

ColumnDiffWitness ==
    /\ pc = "generate"
    /\ \E i \in DOMAIN changes :
          /\ changes[i].type = "alter_table"
          /\ {"add_column", "drop_column", "modify_column"}
                = {e.type : e \in Range(changes[i].details.changes)}

\* the positions of the index (foreign key) changes of table n that name nm
IndexPositions(n, nm) ==
    {i \in DOMAIN changes :
        /\ changes[i].table = n
        /\ changes[i].type \in {"drop_index", "create_index"}
        /\ changes[i].details.index.name = nm}

FkPositions(n, nm) ==
    {i \in DOMAIN changes :
        /\ changes[i].table = n
        /\ changes[i].type \in {"drop_foreign_key", "add_foreign_key"}
        /\ changes[i].details.foreignKey.name = nm}

\* C4: for a table present in both schemas, an index or foreign key matched
\* by name that differs produces exactly two changes, the drop carrying the
\* current definition immediately followed by the create carrying the
\* desired one; an unchanged one produces no change.
IndexAndFkModifyIsDropCreate ==
    pc = "generate" =>
      \A n \in CommonTables :
        LET curT == Get(currentSchema, n)
            desT == Get(desiredSchema, n)
        IN  /\ \A k \in DOMAIN desT.indexes :
                  Has(curT.indexes, desT.indexes[k].name) =>
                    LET c == Get(curT.indexes, desT.indexes[k].name)
                        d == desT.indexes[k]
                        pos == IndexPositions(n, d.name)
                    IN  IF c.unique # d.unique \/ c.columns # d.columns
                        THEN \E i \in DOMAIN changes :
                               /\ pos = {i, i + 1}
                               /\ changes[i] = [type |-> "drop_index", table |-> n,
                                                details |-> [index |-> c]]
                               /\ changes[i + 1] = [type |-> "create_index", table |-> n,
                                                    details |-> [index |-> d]]
                        ELSE pos = {}
            /\ \A k \in DOMAIN desT.foreignKeys :
                  Has(curT.foreignKeys, desT.foreignKeys[k].name) =>
                    LET c == Get(curT.foreignKeys, desT.foreignKeys[k].name)
                        d == desT.foreignKeys[k]
                        pos == FkPositions(n, d.name)
                    IN  IF \/ c.column # d.column
                           \/ c.referencedTable # d.referencedTable
                           \/ c.referencedColumn # d.referencedColumn
                           \/ c.onDelete # d.onDelete
                           \/ c.onUpdate # d.onUpdate
                        THEN \E i \in DOMAIN changes :
                               /\ pos = {i, i + 1}
                               /\ changes[i] = [type |-> "drop_foreign_key", table |-> n,
                                                details |-> [foreignKey |-> c]]
                               /\ changes[i + 1] = [type |-> "add_foreign_key", table |-> n,
                                                    details |-> [foreignKey |-> d]]
                        ELSE pos = {}

IndexModifyWitness ==
    /\ pc = "generate"
    /\ \E n \in CommonTables :
          \E k \in DOMAIN Get(desiredSchema, n).indexes :
             LET d == Get(desiredSchema, n).indexes[k]
             IN  /\ Has(Get(currentSchema, n).indexes, d.name)
                 /\ Get(Get(currentSchema, n).indexes, d.name).unique # d.unique
                 /\ Cardinality(IndexPositions(n, d.name)) = 2
                 /\ Len(changes) > 2

(***************************************************************************)
(* Properties of the generator (specifications SpecGen and Spec)           *)
(***************************************************************************)
\* the rank of a change type: drop_foreign_key < drop_index < alter_table <
\* drop_table < create_table < create_index < add_foreign_key
Rank(type) ==
    CASE type = "drop_foreign_key" -> 1
      [] type = "drop_index" -> 2
      [] type = "alter_table" -> 3
      [] type = "drop_table" -> 4
      [] type = "create_table" -> 5
      [] type = "create_index" -> 6
      [] type = "add_foreign_key" -> 7

\* the input list, rank by rank, each rank in input order
InputByRank == Flatten([r \in 1..7 |-> SelectSeq(input, LAMBDA c : Rank(c.type) = r)])

\* C5: generate orders the changes by the fixed rank before rendering,
\* whatever the input order: upStatements holds the statements of the changes
\* rank by rank, and changes of equal rank keep their input order.
UpOrderedByRank ==
    pc = "done" =>
      upStatements = Flatten([i \in DOMAIN InputByRank |->
                                 generateChangeSQL(InputByRank[i], dialect).up])

UpOrderedWitness ==
    /\ pc = "done"
    /\ Len(upStatements) >= 3
    /\ input # changes
    /\ \E i, j \in DOMAIN input :
          /\ i < j
          /\ input[i].type = input[j].type
          /\ input[i] # input[j]
          /\ generateChangeSQL(input[i], dialect).up # <<>>
          /\ generateChangeSQL(input[j], dialect).up # <<>>

\* the tables and foreign keys of a schema, as the database holds them
DbOf(schema) ==
    [tables |-> {schema[i].name : i \in DOMAIN schema},
     fks |-> UNION {{[owner |-> schema[i].name, name |-> schema[i].foreignKeys[k].name,
                      references |-> schema[i].foreignKeys[k].referencedTable] :
                        k \in DOMAIN schema[i].foreignKeys} : i \in DOMAIN schema}]

\* the effect of executing the up statement of one change
ApplyToDb(db, c) ==
    CASE c.type = "drop_table" ->
           [tables |-> db.tables \ {c.table},
            fks |-> {f \in db.fks : f.owner # c.table}]
      [] c.type = "create_table" -> [db EXCEPT !.tables = @ \cup {c.table}]
      [] c.type = "add_foreign_key" ->
           [db EXCEPT !.fks = @ \cup {[owner |-> c.table,
                                        name |-> c.details.foreignKey.name,
                                        references |-> c.details.foreignKey.referencedTable]}]
      [] c.type = "drop_foreign_key" ->
           [db EXCEPT !.fks = {f \in @ : ~(f.owner = c.table
                                            /\ f.name = c.details.foreignKey.name)}]
      [] OTHER -> db

\* the database after the first k changes of the ordered list
RECURSIVE DbAfter(_)
DbAfter(k) == IF k = 0 THEN DbOf(currentSchema) ELSE ApplyToDb(DbAfter(k - 1), changes[k])

FksReferenceExistingTables(schema) ==
    \A i \in DOMAIN schema : \A k \in DOMAIN schema[i].foreignKeys :
        Has(schema, schema[i].foreignKeys[k].referencedTable)

\* C6: the up sequence of diff(current, desired) is dependency-safe when the
\* foreign keys of both schemas reference existing tables: when DROP TABLE T
\* executes no other table that still exists holds a foreign key referencing
\* T, and a table exists before a CREATE INDEX or ADD CONSTRAINT on it
\* executes.
UpSequenceDependencySafe ==
    (/\ pc = "done"
     /\ FksReferenceExistingTables(currentSchema)
     /\ FksReferenceExistingTables(desiredSchema)) =>
      \A i \in DOMAIN changes :
        /\ changes[i].type = "drop_table" =>
              \A f \in DbAfter(i - 1).fks :
                 f.references = changes[i].table => f.owner = changes[i].table
        /\ changes[i].type \in {"create_index", "add_foreign_key"} =>
              changes[i].table \in DbAfter(i - 1).tables

\* the (up, down) statement pairs of one change: one per nested TableChange
\* for alter_table, one otherwise
PairsOf(c, d) ==
    IF c.type = "alter_table"
    THEN [k \in DOMAIN c.details.changes |->
            [up |-> generateTableChange(c.table, c.details.changes[k], d).up[1],
             down |-> generateTableChange(c.table, c.details.changes[k], d).down[1]]]
    ELSE <<[up |-> generateChangeSQL(c, d).up[1], down |-> generateChangeSQL(c, d).down[1]]>>

\* the pairs of the ordered list, in the order of upStatements
AllPairs == Flatten([i \in DOMAIN changes |-> PairsOf(changes[i], dialect)])

\* C7: downStatements is exactly the reverse of upStatements: downStatements[i]
\* is the inverse of the change or nested TableChange that produced
\* upStatements[n-1-i], also when an alter_table carries several TableChanges.
DownIsReverseOfUp ==
    pc = "done" =>
      /\ upStatements = [i \in DOMAIN AllPairs |-> AllPairs[i].up]
      /\ downStatements = Reverse([i \in DOMAIN AllPairs |-> AllPairs[i].down])

\* C8: for every change list and every dialect, upStatements and
\* downStatements have equal length.
UpDownSameLength == pc = "done" => Len(upStatements) = Len(downStatements)

UpDownSameLengthWitness ==
    /\ pc = "done"
    /\ dialect = "sqlite"
    /\ Len(upStatements) >= 4
    /\ \E i \in DOMAIN changes : changes[i].type = "drop_table"
    /\ \E i \in DOMAIN changes :
          changes[i].type = "alter_table" /\ Len(changes[i].details.changes) >= 2

RECURSIVE Sum(_)
Sum(ns) == IF ns = <<>> THEN 0 ELSE Head(ns) + Sum(Tail(ns))

\* C9: generate emits exactly one up and one down statement per change other
\* than alter_table and exactly one pair per nested TableChange; a dialect
\* limitation never removes a statement, so the number of up statements is
\* the number of non-alter changes plus the number of nested TableChanges.
OneStatementPerChange ==
    pc = "done" =>
      /\ \A i \in DOMAIN input :
            LET r == generateChangeSQL(input[i], dialect)
                n == IF input[i].type = "alter_table"
                     THEN Len(input[i].details.changes) ELSE 1
            IN  Len(r.up) = n /\ Len(r.down) = n
      /\ Len(upStatements)
            = Sum([i \in DOMAIN input |->
                     IF input[i].type = "alter_table"
                     THEN Len(input[i].details.changes) ELSE 1])

OneStatementWitness ==
    /\ pc = "done"
    /\ dialect = "sqlite"
    /\ \E i \in DOMAIN input : input[i].type = "add_foreign_key"
    /\ \E i \in DOMAIN input :
          /\ input[i].type = "alter_table"
          /\ \E k \in DOMAIN input[i].details.changes :
                input[i].details.changes[k].type = "drop_column"
    /\ SqliteNoAddConstraint \in Range(upStatements)
    /\ SqliteNoDropColumn \in Range(upStatements)

Swapped(r) == [up |-> r.down, down |-> r.up]

InverseType(type) ==
    CASE type = "create_table" -> "drop_table"
      [] type = "drop_table" -> "create_table"
      [] type = "create_index" -> "drop_index"
      [] type = "drop_index" -> "create_index"
      [] type = "add_foreign_key" -> "drop_foreign_key"
      [] type = "drop_foreign_key" -> "add_foreign_key"
      [] type = "add_column" -> "drop_column"
      [] type = "drop_column" -> "add_column"

\* C10: inverse change types render as exact swaps in every dialect: for the
\* same table and definition, the (up, down) of drop_index, drop_foreign_key,
\* drop_table and drop_column is the (down, up) of create_index,
\* add_foreign_key, create_table and add_column.
InverseTypesAreSwaps ==
    pc = "done" =>
      \A i \in DOMAIN changes :
        LET c == changes[i]
        IN  IF c.type = "alter_table"
            THEN \A k \in DOMAIN c.details.changes :
                   LET e == c.details.changes[k]
                   IN  e.type \in {"add_column", "drop_column"} =>
                         generateTableChange(c.table, [e EXCEPT !.type = InverseType(@)],
                                             dialect)
                           = Swapped(generateTableChange(c.table, e, dialect))
            ELSE generateChangeSQL([c EXCEPT !.type = InverseType(@)], dialect)
                   = Swapped(generateChangeSQL(c, dialect))

InverseSwapWitness ==
    /\ pc = "done"
    /\ dialect = "mysql"
    /\ {"drop_index", "drop_foreign_key", "alter_table"}
          \subseteq {changes[i].type : i \in DOMAIN changes}
    /\ \E i \in DOMAIN changes :
          /\ changes[i].type = "alter_table"
          /\ \E k \in DOMAIN changes[i].details.changes :
                changes[i].details.changes[k].type = "drop_column"

(***************************************************************************)
(* Properties of the text of the statements (specification SpecGen)        *)
(***************************************************************************)
IsSqliteComment(s) == StartsWith(s, "--") /\ Includes(s, "SQLite")

UnsupportedOnSqlite == {"DROP COLUMN", "ALTER COLUMN", "MODIFY COLUMN",
                        "ADD CONSTRAINT", "DROP CONSTRAINT"}

\* C11: for the sqlite dialect the up statement of drop_column, the down
\* statement of add_column, both statements of modify_column and both
\* statements of add_foreign_key and drop_foreign_key are comments that start
\* with "--" and mention SQLite, and no emitted statement that names an
\* unsupported operation is anything but such a comment.
SqliteUnsupportedAreComments ==
    (pc = "done" /\ dialect = "sqlite") =>
      /\ \A i \in DOMAIN input :
            LET c == input[i]
                r == generateChangeSQL(c, "sqlite")
            IN  /\ c.type \in {"add_foreign_key", "drop_foreign_key"} =>
                      IsSqliteComment(r.up[1]) /\ IsSqliteComment(r.down[1])
                /\ c.type = "alter_table" =>
                      \A k \in DOMAIN c.details.changes :
                         LET t == c.details.changes[k].type
                         IN  /\ t \in {"drop_column", "modify_column"} =>
                                   IsSqliteComment(r.up[k])
                             /\ t \in {"add_column", "modify_column"} =>
                                   IsSqliteComment(r.down[k])
      /\ \A s \in Range(upStatements) \cup Range(downStatements) :
            (\E op \in UnsupportedOnSqlite : Includes(s, op)) => IsSqliteComment(s)

SqliteCommentsWitness ==
    /\ pc = "done"
    /\ dialect = "sqlite"
    /\ \E i \in DOMAIN input :
          /\ input[i].type = "alter_table"
          /\ \E k \in DOMAIN input[i].details.changes :
                input[i].details.changes[k].type = "modify_column"
    /\ \E i \in DOMAIN input : input[i].type = "drop_foreign_key"
    /\ SqliteNoModifyColumn \in Range(upStatements) \cap Range(downStatements)
    /\ SqliteNoDropConstraint \in Range(upStatements)

Occurrences(s, p) ==
    Cardinality({i \in 1..(Len(s) - Len(p) + 1) : SubSeq(s, i, i + Len(p) - 1) = p})

\* C12: a rendered CREATE TABLE declares the primary key exactly once: a
\* table with a primary key has one PRIMARY KEY clause in its statement, and
\* when primaryKey has more than one column that clause is the table-level
\* one and no column definition carries an inline PRIMARY KEY.
PrimaryKeyDeclaredOnce ==
    pc = "done" =>
      \A i \in DOMAIN input :
         input[i].type = "create_table" =>
           LET tableSchema == input[i].details.tableSchema
               createSQL == generateChangeSQL(input[i], dialect).up[1]
           IN  /\ createSQL \in Range(upStatements)
               /\ Occurrences(createSQL, "PRIMARY KEY")
                     = IF tableSchema.primaryKey = <<>> THEN 0 ELSE 1
               /\ Len(tableSchema.primaryKey) > 1 =>
                     \A k \in DOMAIN tableSchema.columns :
                        ~Includes(generateColumnDefinition(tableSchema.columns[k], dialect),
                                  "PRIMARY KEY")

\* the type mapping table of the specification: semantic, postgresql, mysql, sqlite
SpecTypeTable ==
    << <<"integer", "INTEGER", "INT", "INTEGER">>,
       <<"bigint", "BIGINT", "BIGINT", "INTEGER">>,
       <<"varchar", "VARCHAR(255)", "VARCHAR(255)", "TEXT">>,
       <<"text", "TEXT", "TEXT", "TEXT">>,
       <<"boolean", "BOOLEAN", "BOOLEAN", "INTEGER">>,
       <<"timestamp", "TIMESTAMP", "TIMESTAMP", "TEXT">>,
       <<"json", "JSON", "JSON", "TEXT">>,
       <<"decimal", "DECIMAL", "DECIMAL", "REAL">> >>

DialectColumn(d) == IF d = "postgresql" THEN 2 ELSE IF d = "mysql" THEN 3 ELSE 4
DialectTypes(d) ==
    IF d = "postgresql" THEN pgTypes ELSE IF d = "mysql" THEN mysqlTypes ELSE sqliteTypes

\* the native type the specification gives a semantic type, <<>> where it
\* gives none (a type a dialect maps that is not in the table)
ExpectedType(type, d) ==
    LET t == Str(toLowerCase(type))
    IN  IF \E i \in DOMAIN SpecTypeTable : SpecTypeTable[i][1] = t
        THEN <<SpecTypeTable[CHOOSE i \in DOMAIN SpecTypeTable :
                                SpecTypeTable[i][1] = t][DialectColumn(d)]>>
        ELSE IF \E i \in DOMAIN DialectTypes(d) : DialectTypes(d)[i][1] = t
        THEN <<>>
        ELSE <<Str(toUpperCase(toLowerCase(type)))>>

\* C13: in every dialect each semantic type of the table renders as its
\* native type, and a semantic type that the dialect does not map renders as
\* its uppercased name: every column of a created table that is not
\* auto-increment appears in the statement as <name> <expected type>.
TypeMappingIsTotalUppercase ==
    pc = "done" =>
      \A i \in DOMAIN input :
         input[i].type = "create_table" =>
           \A k \in DOMAIN input[i].details.tableSchema.columns :
              LET column == input[i].details.tableSchema.columns[k]
                  expected == ExpectedType(column.type, dialect)
              IN  (expected # <<>>) =>
                    /\ getColumnType(column, dialect) = expected[1]
                    /\ ~column.autoIncrement =>
                          \E s \in Range(upStatements) :
                             Includes(s, quote(column.name, dialect) \o " " \o expected[1])

(***************************************************************************)
(* Properties of the introspector (specification SpecIntrospect)           *)
(***************************************************************************)
\* C14: for every dialect and every configured migrations-table name the
\* schema introspect() returns holds no table of that name, so the differ
\* never proposes to drop the tracking table the Migrator created.
IntrospectExcludesMigrationsTable ==
    /\ pc \in {"diff", "generate", "done"} => ~Has(currentSchema, migrationsTable)
    /\ pc \in {"generate", "done"} =>
          \A i \in DOMAIN changes :
             ~(changes[i].type = "drop_table" /\ changes[i].table = migrationsTable)

(***************************************************************************)
(* Properties of the Migrator (specification SpecMigrator)                 *)
(***************************************************************************)
\* the tracking table a call leaves when exactly the migrations in ds went through
TrackingAfter(rows, ds, op) ==
    IF op = "runMigrations" THEN rows \o ds
    ELSE SelectSeq(rows, LAMBDA r : r \notin Range(ds))

IsBegun(ev, name) ==
    ev.e \in {"BEGIN", "START TRANSACTION"} /\ ev.ok /\ ev.name = name

\* the events of one committed migration, in order, somewhere in the history
CommittedIn(evs, name, body) ==
    \E i \in DOMAIN evs :
       /\ i + 3 <= Len(evs)
       /\ IsBegun(evs[i], name)
       /\ evs[i + 1] = Event(body, name, TRUE)
       /\ evs[i + 2] = Event("bookkeep", name, TRUE)
       /\ evs[i + 3] = Event("COMMIT", name, TRUE)

\* C15: each migration is atomic.  up()/down() is called only right after a
\* successful BEGIN (or START TRANSACTION); the tracking table differs from
\* its state at the start of the call by exactly the migrations whose body,
\* bookkeeping statement and COMMIT all succeeded; a failure of any of the
\* three is followed by ROLLBACK before the call settles, leaving the
\* tracking table as it was before that migration; and no transaction is
\* open when BEGIN is issued or when a call has settled.
MigrationIsAtomic ==
    /\ \A i \in DOMAIN events :
          events[i].e \in {"up", "down"} =>
             i > 1 /\ IsBegun(events[i - 1], events[i].name)
    /\ tracking = TrackingAfter(before.tracking, done, call.op)
    /\ \A i \in DOMAIN done : CommittedIn(events, done[i], Direction)
    /\ \A i \in DOMAIN events :
          (events[i].e \in {"up", "down", "bookkeep", "COMMIT"} /\ ~events[i].ok) =>
             IF i = Len(events) THEN mpc = "rollback" /\ result = NoResult
             ELSE events[i + 1].e = "ROLLBACK" /\ i + 1 = Len(events)
                  /\ mpc = "idle" /\ result = Returned(FALSE, done)
    /\ mpc \in {"idle", "initialize", "plan", "load", "begin"} => ~txOpen /\ working = tracking
    /\ mpc \in {"body", "bookkeep", "commit", "rollback"} => txOpen

MigrationIsAtomicWitness ==
    /\ mpc = "idle"
    /\ call.op = "runMigrations"
    /\ result = Returned(FALSE, done)
    /\ Len(done) = 1
    /\ Len(events) >= 2
    /\ events[Len(events)].e = "ROLLBACK"
    /\ events[Len(events) - 1] = Event("COMMIT", "2_b", FALSE)
    /\ tracking = <<"1_a">>

IsAscending(names) ==
    \A i \in 1..(Len(names) - 1) : StringLess(names[i], names[i + 1])

IsPrefix(a, b) == Len(a) <= Len(b) /\ SubSeq(b, 1, Len(a)) = a

\* the names whose transaction the call has begun, each once, in order
Attempted ==
    LET begun == SelectSeq(events, LAMBDA ev : ev.e = "BEGIN")
    IN  [i \in DOMAIN begun |-> begun[i].name]

\* the pending migrations when the call began: the files not recorded
PendingBefore == before.files \ Range(before.tracking)

\* C16: runMigrations takes the pending migrations one at a time in ascending
\* file-name order.  It returns success=true with every pending name in
\* execution order when all succeed; at the first failure it returns
\* success=false with exactly the migrations committed before it, which stay
\* recorded, and the later ones are not attempted and stay pending.
RunMigrationsStopsAtFirstFailure ==
    call.op = "runMigrations" =>
      /\ IsAscending(Attempted)
      /\ Range(Attempted) \subseteq PendingBefore
      /\ \A n \in PendingBefore : \A k \in DOMAIN Attempted :
            StringLess(n, Attempted[k]) => \E j \in 1..(k - 1) : Attempted[j] = n
      /\ IsPrefix(done, Attempted) /\ Len(Attempted) <= Len(done) + 1
      /\ (mpc = "idle" /\ result.kind = "return") =>
            /\ result.list = done
            /\ tracking = before.tracking \o result.list
            /\ Range(getPendingMigrations(before.files, tracking))
                  = PendingBefore \ Range(result.list)
            /\ result.success => Range(result.list) = PendingBefore
            /\ ~result.success =>
                  /\ Len(Attempted) = Len(done) + 1
                  /\ Attempted[Len(Attempted)] \notin Range(tracking)
                  /\ \E ev \in Range(events) :
                        ev.name = Attempted[Len(Attempted)] /\ ~ev.ok

RunMigrationsWitness ==
    /\ mpc = "idle"
    /\ call.op = "runMigrations"
    /\ before.files = {"1_a", "2_b", "3_c"}
    /\ before.tracking = <<>>
    /\ result = Returned(FALSE, <<"1_a">>)
    /\ tracking = <<"1_a">>
    /\ Event("up", "2_b", FALSE) \in Range(events)
    /\ \A ev \in Range(events) : ev.name # "3_c"

Min(a, b) == IF a < b THEN a ELSE b

\* the k rows inserted last, newest first
LastExecuted(rows, k) == Reverse(SubSeq(rows, Len(rows) - k + 1, Len(rows)))

\* C17: revertMigration(count) reverts exactly min(count, number of executed
\* migrations) migrations, the most recently executed ones, newest first, and
\* leaves the earlier ones recorded; count = 0 reverts none.
RevertMigrationRevertsLastCount ==
    call.op = "revertMigration" =>
      LET n == Min(call.count, Len(before.tracking))
      IN  /\ Len(Attempted) <= n
          /\ (mpc = "idle" /\ result.kind = "return" /\ result.success) =>
                /\ result.list = LastExecuted(before.tracking, n)
                /\ tracking = SubSeq(before.tracking, 1, Len(before.tracking) - n)

\* the rows recorded before the call, in the order getExecutedMigrations lists them
ExecutedBefore == getExecutedMigrations(before.tracking)

\* position of the target among them, 0 when it is not executed
TargetPosition ==
    IF call.target \in Range(ExecutedBefore)
    THEN CHOOSE i \in DOMAIN ExecutedBefore : ExecutedBefore[i] = call.target
    ELSE 0

\* the migrations listed after the target, newest first
AfterTarget == Reverse(SubSeq(ExecutedBefore, TargetPosition + 1, Len(ExecutedBefore)))

\* C18 as stated: revertTo(target) throws and reverts nothing when target is
\* not executed; otherwise it reverts exactly the migrations executed after
\* target, newest first, target and everything before it stay recorded, and
\* with target the last one it reverts nothing and returns success=true.
RevertToRevertsAllAfterTarget ==
    (call.op = "revertTo" /\ mpc = "idle") =>
      IF TargetPosition = 0
      THEN result.kind = "throw" /\ events = <<>> /\ tracking = before.tracking
      ELSE result.kind = "return" =>
             /\ result.list = AfterTarget
             /\ getExecutedMigrations(tracking) = SubSeq(ExecutedBefore, 1, TargetPosition)
             /\ (AfterTarget = <<>> => result.success)

\* C18, amended: revertTo(target) throws and reverts nothing when target is
\* not executed; otherwise it takes the migrations listed after target in the
\* tracking table (ascending timestamp), newest first, and stops at the first
\* one whose file cannot be loaded or whose transaction fails: it returns
\* success=true having reverted all of them, or success=false having
\* reverted only those before the failing one, the rest staying recorded;
\* target and everything before it stay recorded either way, and with target
\* the last one it reverts nothing and returns success=true.
RevertToStopsAtFirstFailure ==
    call.op = "revertTo" =>
      IF TargetPosition = 0
      THEN /\ events = <<>> /\ done = <<>> /\ tracking = before.tracking
           /\ mpc = "idle" => result.kind = "throw"
      ELSE /\ IsPrefix(Attempted, AfterTarget)
           /\ IsPrefix(done, AfterTarget)
           /\ tracking = TrackingAfter(before.tracking, done, call.op)
           /\ \A i \in 1..TargetPosition : ExecutedBefore[i] \in Range(tracking)
           /\ (mpc = "idle" /\ result.kind = "return") =>
                 /\ result.list = done
                 /\ result.success <=> (done = AfterTarget)
                 /\ ~result.success =>
                       AfterTarget[Len(done) + 1] \in Range(tracking)

RevertToWitness ==
    /\ mpc = "idle"
    /\ call.op = "revertTo"
    /\ call.target = "1_a"
    /\ before.tracking = <<"1_a", "2_b", "3_c">>
    /\ result = Returned(FALSE, <<"3_c">>)
    /\ tracking = <<"1_a", "2_b">>
    /\ Event("down", "2_b", FALSE) \in Range(events)

\* C19: whatever calls came before, getStatus partitions the migration
\* files: executed is what the tracking table records, every file name is in
\* executed or in pending and never in both, pending holds only file names,
\* in sorted order, and with an empty folder and an empty tracking table
\* both lists are empty.
GetStatusPartitionsFiles ==
    (call.op = "getStatus" /\ mpc = "idle" /\ result.kind = "return") =>
      /\ Range(result.executed) = Range(tracking)
      /\ Len(result.executed) = Len(tracking)
      /\ \A f \in before.files :
            (f \in Range(result.executed)) # (f \in Range(result.pending))
      /\ Range(result.pending) \subseteq before.files
      /\ IsAscending(result.pending)
      /\ (before.files = {} /\ tracking = <<>>) =>
            result.executed = <<>> /\ result.pending = <<>>

GetStatusWitness ==
    /\ call.op = "getStatus"
    /\ mpc = "idle"
    /\ result.kind = "return"
    /\ result.executed = <<"1_a", "3_c">>
    /\ result.pending = <<"2_b">>
    /\ tracking = <<"3_c", "1_a">>

(***************************************************************************)
(* Properties of the check command (specification SpecMigrator)            *)
(***************************************************************************)
\* C20: check is valid exactly when getStatus succeeded, validation found no
\* errors and (failOnPending is off or nothing is pending); when getStatus
\* throws it is not valid, reports "Failed to connect to database" and
\* counts executed = pending = 0; the check command exits with 1 exactly
\* when valid is false, and with 0 otherwise.
CheckValidIffCleanAndExitCode ==
    (call.op = "check" /\ mpc = "idle") =>
      /\ result.kind = "check"
      /\ result.check.valid <=>
            /\ result.status.kind = "return"
            /\ Len(call.validation.errors) = 0
            /\ (~call.failOnPending \/ PendingBefore = {})
      /\ result.status.kind = "throw" =>
            /\ ~result.check.valid
            /\ \E i \in DOMAIN result.check.errors :
                  StartsWith(result.check.errors[i], "Failed to connect to database")
            /\ result.check.executed = 0
            /\ result.check.pending = 0
      /\ result.status.kind = "return" =>
            /\ result.check.executed = Len(tracking)
            /\ result.check.pending = Cardinality(PendingBefore)
      /\ result.exitCode = (IF result.check.valid THEN 0 ELSE 1)

CheckWitness ==
    /\ call.op = "check"
    /\ mpc = "idle"
    /\ result.kind = "check"
    /\ call.failOnPending
    /\ call.validation.errors = <<>>
    /\ result.status.kind = "return"
    /\ result.check.executed = 1
    /\ result.check.pending = 2
    /\ ~result.check.valid
    /\ result.exitCode = 1

(***************************************************************************)
(* Properties of the differ as a whole (specification Spec)                *)
(***************************************************************************)
\* one TableChange carried out on a list of columns
ApplyTableChange(columns, tc) ==
    CASE tc.type = "add_column" -> Append(columns, tc.details.column)
      [] tc.type = "drop_column" -> SelectSeq(columns, LAMBDA c : c.name # tc.column)
      [] tc.type = "modify_column" ->
           [i \in DOMAIN columns |->
               IF columns[i].name = tc.column THEN tc.details.desiredColumn ELSE columns[i]]
      [] OTHER -> columns

RECURSIVE ApplyTableChanges(_, _)
ApplyTableChanges(columns, tcs) ==
    IF tcs = <<>> THEN columns
    ELSE ApplyTableChanges(ApplyTableChange(columns, Head(tcs)), Tail(tcs))

\* one SchemaChange carried out on a schema; CREATE TABLE makes the columns
\* only, indexes and foreign keys come with their own changes
ApplyChange(schema, c) ==
    LET onTable(f(_)) ==
            [i \in DOMAIN schema |-> IF schema[i].name = c.table THEN f(schema[i])
                                     ELSE schema[i]]
        alter(t) == [t EXCEPT !.columns = ApplyTableChanges(@, c.details.changes)]
        createIndex(t) == [t EXCEPT !.indexes = Append(@, c.details.index)]
        dropIndex(t) ==
            [t EXCEPT !.indexes = SelectSeq(@, LAMBDA x : x.name # c.details.index.name)]
        addFk(t) == [t EXCEPT !.foreignKeys = Append(@, c.details.foreignKey)]
        dropFk(t) ==
            [t EXCEPT !.foreignKeys =
                 SelectSeq(@, LAMBDA x : x.name # c.details.foreignKey.name)]
    IN  CASE c.type = "drop_table" -> SelectSeq(schema, LAMBDA t : t.name # c.table)
          [] c.type = "create_table" ->
               Append(schema, [c.details.tableSchema EXCEPT !.indexes = <<>>,
                                                            !.foreignKeys = <<>>])
          [] c.type = "alter_table" -> onTable(alter)
          [] c.type = "create_index" -> onTable(createIndex)
          [] c.type = "drop_index" -> onTable(dropIndex)
          [] c.type = "add_foreign_key" -> onTable(addFk)
          [] c.type = "drop_foreign_key" -> onTable(dropFk)
          [] OTHER -> schema

RECURSIVE ApplyChanges(_, _)
ApplyChanges(schema, cs) ==
    IF cs = <<>> THEN schema ELSE ApplyChanges(ApplyChange(schema, Head(cs)), Tail(cs))

\* what two schemas are compared in: tables by name, columns by name with
\* normalized type and default, indexes and foreign keys by name
SchemaView(schema) ==
    {[name |-> schema[i].name,
      columns |-> {[name |-> col.name, type |-> normalizeType(col.type),
                    notNull |-> col.notNull, primaryKey |-> col.primaryKey,
                    defaultValue |-> normalizeDefault(col.defaultValue)] :
                      col \in Range(schema[i].columns)},
      indexes |-> {[name |-> x.name, columns |-> x.columns, unique |-> x.unique] :
                      x \in Range(schema[i].indexes)},
      foreignKeys |-> Range(schema[i].foreignKeys)] : i \in DOMAIN schema}

\* the list diff() returned, also after generate has sorted the caller's array
DiffOutput == IF pc = "generate" THEN changes ELSE input

\* C21: applying the changes of diff(current, desired) to current gives a
\* schema equal to desired in its tables, columns (normalized type, notNull,
\* primaryKey, normalized default), indexes and foreign keys.
DiffIsComplete ==
    pc \in {"generate", "done"} =>
      SchemaView(ApplyChanges(currentSchema, DiffOutput)) = SchemaView(desiredSchema)

DiffIsCompleteWitness ==
    /\ pc = "generate"
    /\ \E i \in DOMAIN changes : changes[i].type = "drop_table"
    /\ \E i \in DOMAIN changes : changes[i].type = "create_table"
    /\ \E i \in DOMAIN changes : changes[i].type = "add_foreign_key"
    /\ SchemaView(currentSchema) # SchemaView(desiredSchema)
    /\ SchemaView(ApplyChanges(currentSchema, changes)) = SchemaView(desiredSchema)

\* C22: for postgresql and mysql every modify_column the differ emits is
\* rendered into statements that carry the change: the up statement, built
\* from the desired column, differs from the down statement, built from the
\* current column.
ModifyColumnCarriesChange ==
    (pc = "done" /\ dialect \in {"postgresql", "mysql"}) =>
      \A i \in DOMAIN input :
         input[i].type = "alter_table" =>
           LET r == generateChangeSQL(input[i], dialect)
           IN  \A k \in DOMAIN input[i].details.changes :
                  LET tc == input[i].details.changes[k]
                  IN  (/\ tc.type = "modify_column"
                       /\ columnsAreDifferent(tc.details.currentColumn,
                                              tc.details.desiredColumn)) =>
                         /\ r.up[k] \in Range(upStatements)
                         /\ r.down[k] \in Range(downStatements)
                         /\ r.up[k] # r.down[k]

\* C23: down restores what up removed: when diff drops a table that has indexes
\* or foreign keys, the down statements (postgresql, mysql) recreate the table
\* with its indexes and foreign keys, so every index and foreign key of the
\* dropped table is named by some down statement.
DownRestoresDroppedTable ==
    (pc = "done" /\ dialect \in {"postgresql", "mysql"}) =>
      \A i \in DOMAIN input :
         input[i].type = "drop_table" =>
           LET t == input[i].details.tableSchema
           IN  /\ \E s \in Range(downStatements) :
                     StartsWith(s, "CREATE TABLE " \o quote(t.name, dialect))
               /\ \A x \in Range(t.indexes) :
                     \E s \in Range(downStatements) : Includes(s, quote(x.name, dialect))
               /\ \A f \in Range(t.foreignKeys) :
                     \E s \in Range(downStatements) : Includes(s, quote(f.name, dialect))

\* C24: generate has no effect on its argument: after generate(changes)
\* returns, the caller's array holds the same elements in the same order as
\* before the call, and generate called again on that array returns the same
\* result.
GenerateLeavesArgument ==
    pc = "done" =>
      /\ changes = input
      /\ generate(changes, dialect) =
           [upStatements |-> upStatements, downStatements |-> downStatements]

\* the names of the columns of table `name` in schema, in iteration order
ColumnNames(schema, name) ==
    LET t == CHOOSE x \in Range(schema) : x.name = name
    IN  [i \in DOMAIN t.columns |-> t.columns[i].name]

\* the relative order of the names of ns that occur in list
IsInOrderOf(ns, list) ==
    \A i, j \in DOMAIN ns :
       i < j => \E a, b \in DOMAIN list : a < b /\ list[a] = ns[i] /\ list[b] = ns[j]

\* C25: inside one alter_table change the TableChange entries are ordered as
\* all add_column and modify_column entries in desired-column iteration order
\* first, then all drop_column entries in current-column iteration order.
TableChangesAddThenDrop ==
    pc \in {"generate", "done"} =>
      \A i \in DOMAIN DiffOutput :
         DiffOutput[i].type = "alter_table" =>
           LET tcs == DiffOutput[i].details.changes
               isDrop(tc) == tc.type = "drop_column"
               isAddOrModify(tc) == tc.type \in {"add_column", "modify_column"}
               names(sel) == [k \in DOMAIN sel |-> sel[k].column]
           IN  /\ \A j, k \in DOMAIN tcs :
                     (isAddOrModify(tcs[j]) /\ isDrop(tcs[k])) => j < k
               /\ IsInOrderOf(names(SelectSeq(tcs, isAddOrModify)),
                              ColumnNames(desiredSchema, DiffOutput[i].table))
               /\ IsInOrderOf(names(SelectSeq(tcs, isDrop)),
                              ColumnNames(currentSchema, DiffOutput[i].table))

(***************************************************************************)
(* Properties of what the introspector reads (specification SpecIntrospect)*)
(***************************************************************************)
\* the tables of the catalog that introspect() returned, each with its TableSchema
Introspected ==
    {<<database[i], Get(currentSchema, database[i].name)>> :
        i \in {j \in DOMAIN database : Has(currentSchema, database[j].name)}}

\* the referential action of the model for a rule of the catalog
ActionOf(rule) == IF rule = "NO ACTION" THEN Undefined ELSE Some(rule)

\* C26: in all three dialects an introspected foreign key has the onDelete /
\* onUpdate of the catalog's delete / update rule, NO ACTION being undefined;
\* so a key declared ON DELETE CASCADE introspects with onDelete = CASCADE
\* and is not different from the desired key of the same definition.
IntrospectCarriesReferentialActions ==
    pc \in {"diff", "generate", "done"} =>
      \A p \in Introspected :
         /\ Len(p[2].foreignKeys) = Len(p[1].foreignKeys)
         /\ \A k \in DOMAIN p[1].foreignKeys :
               /\ p[2].foreignKeys[k].onDelete = ActionOf(p[1].foreignKeys[k].delete_rule)
               /\ p[2].foreignKeys[k].onUpdate = ActionOf(p[1].foreignKeys[k].update_rule)
               /\ Has(desiredSchema, p[1].name) =>
                    ~foreignKeysAreDifferent(p[2].foreignKeys[k],
                                             Get(desiredSchema, p[1].name).foreignKeys[k])

\* C27: for every introspected table in every dialect a column has
\* primaryKey = true exactly when it takes part in the table's primary key,
\* and the table's primaryKey is the list of those columns in catalog order;
\* all k columns of a composite key are flagged and primaryKey has length k.
IntrospectFlagsEveryKeyColumn ==
    pc \in {"diff", "generate", "done"} =>
      \A p \in Introspected :
         LET keyColumns == SelectSeq(p[1].columns, LAMBDA c : c.pk > 0)
         IN  /\ Len(p[2].columns) = Len(p[1].columns)
             /\ \A k \in DOMAIN p[1].columns :
                   p[2].columns[k].primaryKey <=> (p[1].columns[k].pk > 0)
             /\ p[2].primaryKey = [k \in DOMAIN keyColumns |-> keyColumns[k].name]

(***************************************************************************)
(* Properties of the Migrator on hand-named files (specification           *)
(* SpecHandNamed)                                                          *)
(***************************************************************************)
\* C28: revert order mirrors run order, also when the numeric prefixes of
\* the file names have different digit counts or are equal: revertMigration
\* and revertTo take the recorded migrations in exactly the reverse of the
\* order in which runMigrations executed them, the one run last first.
RevertMirrorsRunOrder ==
    call.op \in {"revertMigration", "revertTo"} =>
      IsPrefix(Attempted, Reverse(before.tracking))

(***************************************************************************)
(* Idempotence of runMigrations (specification SpecMigrator)               *)
(***************************************************************************)
\* C29: runMigrations is idempotent.  After a runMigrations call that
\* returned success=true, getStatus on the same files reports no pending
\* migration; a runMigrations call that starts with nothing pending (a second
\* run on the same files) calls no up(), begins no transaction, leaves the
\* tracking table alone and, when it returns, returns success=true with an
\* empty list; a revert adds exactly the migrations it reverted to the
\* pending ones, and a successful run executes exactly the pending ones, so
\* running again after reverting n re-executes exactly those n.
RunMigrationsIsIdempotent ==
    /\ (call.op = "runMigrations" /\ mpc = "idle" /\ result.kind = "return"
          /\ result.success) =>
          /\ getStatus(before.files, tracking).pending = <<>>
          /\ result.list = getPendingMigrations(before.files, before.tracking)
    /\ (call.op = "runMigrations" /\ PendingBefore = {}) =>
          /\ events = <<>>
          /\ done = <<>>
          /\ tracking = before.tracking
          /\ (mpc = "idle" /\ result.kind = "return") => result = Returned(TRUE, <<>>)
    /\ (call.op \in {"revertMigration", "revertTo"} /\ mpc = "idle"
          /\ result.kind = "return") =>
          /\ Range(getStatus(before.files, tracking).pending)
                = PendingBefore \cup Range(result.list)
          /\ Cardinality(Range(result.list)) = Len(result.list)
          /\ Range(result.list) \cap PendingBefore = {}

\* a second run on the files a first run has executed
RunMigrationsIsIdempotentWitness ==
    /\ call.op = "runMigrations"
    /\ mpc = "idle"
    /\ before.files = {"1_a", "2_b"}
    /\ before.tracking = <<"1_a", "2_b">>
    /\ result = Returned(TRUE, <<>>)
    /\ events = <<>>
    /\ tracking = before.tracking

(***************************************************************************)
(* Properties of checkForConflicts (specification SpecConflicts)           *)
(***************************************************************************)
ConflictWarning(f) ==
    "Migration " \o f \o " has an earlier timestamp than executed migrations. "
       \o "This may cause issues in other environments."

\* the files that are not executed and sort before some executed file
InsertedBeforeExecuted(folder, executedMigrations) ==
    {f \in folder \ Range(executedMigrations) :
        \E g \in folder \cap Range(executedMigrations) : StringLess(f, g)}

\* C30: checkForConflicts(executed) warns about exactly the migration files
\* that are not executed and sort before the last executed file, once each
\* and in sorted order, not about unexecuted files after the last executed
\* one; it never reports an error and valid is always true; and it returns
\* no warnings when the migrations folder does not exist.
ConflictsWarnInsertedOnly ==
    call.op = "checkForConflicts" =>
      LET inserted == InsertedBeforeExecuted(before.files, call.executedMigrations)
      IN  /\ result.valid
          /\ result.errors = <<>>
          /\ result.warnings = [i \in 1..Cardinality(inserted) |->
                                   ConflictWarning(sortNames(inserted)[i])]
          /\ ~call.folderExists => result.warnings = <<>>

\* the shape of the test: three files, the middle one not executed
ConflictsWitness ==
    /\ call.op = "checkForConflicts"
    /\ call.folderExists
    /\ before.files = {"1_a", "2_b", "3_c"}
    /\ call.executedMigrations = <<"1_a", "3_c">>
    /\ result.warnings = <<ConflictWarning("2_b")>>

====
